---------------------------- MODULE Spec2Model ----------------------------
(***************************************************************************)
(* Bounded-retry remediation orchestrator: the five-node agent graph       *)
(* (planner, analyzer, remediator, verifier, scorer), the run-submission   *)
(* and sandbox-callback handlers of the HTTP server, and the Run Store     *)
(* (runs, status_transitions, patches, timeline_entries, test_results).    *)
(***************************************************************************)
EXTENDS Integers, Sequences, FiniteSets, TLC

(* ------------------------------------------------------------------ *)
(* Bounds of the model                                                  *)
(* ------------------------------------------------------------------ *)

\* Largest number of issues one scan of the workspace reports.
MaxIssues == 1

\* Number of sandbox-callback requests that may arrive.
MaxCallbacks == 1

\* Run ids handed out by randomUUID (pairwise distinct).
Runs == {"r1", "r2"}

\* retryLimit values of a request body: not a finite number, or an integer.
RetryInputs ==
  {[finite |-> FALSE, n |-> 0]} \cup
  {[finite |-> TRUE, n |-> k] : k \in {-1, 0, 1, 2, 3}}

\* retryLimit values of the requests of the concurrent specification.
RetryInputsConc == {[finite |-> TRUE, n |-> k] : k \in {1}}

\* retryLimit values of the request of the callback specification.
RetryInputsCallback == {[finite |-> TRUE, n |-> k] : k \in {1, 2}}

\* Exit codes of an executed test/build command.
ExitCodes == {0, 1}

\* Numbers of failure lines parseTestFailures extracts from a failed run.
FailedTestCounts == {0, 2}

\* detectProjectType: no manifest gives "unknown", a manifest a known type.
ProjectTypes == {"unknown", "node"}

\* Status values a sandbox callback may carry (absent defaults to completed).
CallbackStatuses == {"absent", "running", "failed", "completed"}

Callbacks == 1..MaxCallbacks

(* ------------------------------------------------------------------ *)
(* Program constants                                                    *)
(* ------------------------------------------------------------------ *)

\* The retry limit used when AGENT_RETRY_LIMIT is not set.
FallbackRetryLimit == 5

MinRetryLimit == 1

MaxRetryLimit == 20

FreeCommits == 20

PenaltyPerCommit == 2

ScoreSkipped == 70

ScorePassed == 100

ScoreFailed == 40

TEST_TIMEOUT_MS == 300000

\* The margin below the timeout from which a failed call counts as timed out.
TimeoutSlackMs == 1000

MAX_FILE_BYTES == 262144

MAX_ISSUES == 180

\* The scanner reports at most this many issues of one file.
MaxIssuesPerFile == 3

\* The length, in lexemes, of the file contents that are enumerated.
MaxContentLen == 4

\* The length of the contents, and the number of issues, that are handed to
\* the patch engine directly.
MaxEngineLen == 3

MaxEngineIssues == 2

\* The number of test executions of one run that are followed.
MaxProbeCalls == 3

VARIABLES
  pc,            \* position of each run-submission handler
  body,          \* retryLimit of each request body
  st,            \* AgentGraphState of each run (in memory)
  err,           \* error captured for each run ("" when none)
  loc,           \* locals of the handler across awaits
  activeClonePaths, \* Map<runId, clonePath>
  tempRoots,     \* temp roots that exist on disk
  created,       \* temp roots ever made by mkdtemp, with the run that made them
  cleanups,      \* paths each handler has called cleanupWorkspace on, in order
  pushes,        \* calls of pushBranch of each run, in order
  dbRuns,        \* runs table (committed)
  dbTransitions, \* status_transitions rows of each run (committed, in id order)
  dbPatches,     \* patches rows of each run (committed, in id order)
  dbTimeline,    \* timeline_entries rows of each run (committed, in id order)
  dbTests,       \* test_results rows of each run (committed, in id order)
  tx,            \* uncommitted rows of each handler's open transaction
  lock,          \* holder of the FOR UPDATE row lock of each runs row
  cb,            \* sandbox-callback handlers
  world,         \* what the repositories and their toolchains can produce, and
                 \* the environment the process was started with
  exe,           \* a call of the sandboxed executor: its input and its result
  file,          \* a source file of the clone, as the scanner and patcher see it
  probe,         \* the cached docker probe of the process and its callers
  scan           \* a scan of a file tree: the files and the issues detected

vars == <<pc, body, st, err, loc, activeClonePaths, tempRoots, created,
          cleanups, pushes, dbRuns, dbTransitions, dbPatches, dbTimeline, dbTests,
          tx, lock, cb, world, exe, file, probe, scan>>

toolVars == <<exe, file, probe, scan>>
envVars == <<body, world, toolVars>>
memVars == <<st, err, loc>>
gitVars == <<pushes>>
fsVars == <<activeClonePaths, tempRoots, created, cleanups, gitVars>>
dbVars == <<dbRuns, dbTransitions, dbPatches, dbTimeline, dbTests, tx, lock>>

(* ------------------------------------------------------------------ *)
(* Helpers                                                              *)
(* ------------------------------------------------------------------ *)

Min(a, b) == IF a < b THEN a ELSE b

Max(a, b) == IF a > b THEN a ELSE b

NoRow == [present |-> FALSE]

\* A request body that has been read.
NoBody == [finite |-> TRUE, n |-> 0]

NoLocals == [kind |-> "none"]

NoTx == [patches |-> <<>>, timeline |-> <<>>]

Free == <<"free", 0>>

Handler == <<"handler", 0>>

CallbackSession(c) == <<"callback", c>>

\* No executor call is under study.
NoCall == [stage |-> "none"]

\* No source file is under study.
NoFile == [stage |-> "none"]

\* The docker probe is not under study.
NoProbe == [stage |-> "none"]

\* No scan of a file tree is under study.
NoScan == [stage |-> "none"]

\* AGENT_RETRY_LIMIT is not set in the environment of the process.
EnvUnset == [set |-> FALSE, n |-> 0]

\* AGENT_RETRY_LIMIT is set to a string that Number() converts to n.
EnvSet(n) == [set |-> TRUE, n |-> n]

\* server.ts: Number(process.env.AGENT_RETRY_LIMIT ?? 5), evaluated once
\* when the process starts.
DEFAULT_RETRY_LIMIT ==
  IF world.AGENT_RETRY_LIMIT.set THEN world.AGENT_RETRY_LIMIT.n
  ELSE FallbackRetryLimit

\* Fault model: a clamp that has lost its lower bound.
clampUpperOnly(value) ==
  IF ~value.finite THEN DEFAULT_RETRY_LIMIT ELSE Min(MaxRetryLimit, value.n)

\* server.ts clampRetryLimit
clampRetryLimit(value) ==
  IF ~value.finite
    THEN DEFAULT_RETRY_LIMIT
    ELSE Min(MaxRetryLimit, Max(MinRetryLimit, value.n))

\* The initial state handed to graph.invoke by runAgentGraph.
InitialAgentState(retryLimit) ==
  [ retryLimit |-> retryLimit,
    ciStatus |-> "pending",
    currentIteration |-> 0,
    issues |-> 0,
    fixesTable |-> <<>>,
    timeline |-> <<>>,
    failuresCount |-> 0,
    fixesCount |-> 0,
    commitCount |-> 0,
    clonePath |-> 0,
    projectType |-> "unknown",
    testResults |-> [passed |-> FALSE, exitCode |-> -1, failedTests |-> 0,
                     executionMethod |-> "skipped"],
    baseScore |-> 0,
    efficiencyPenalty |-> 0 ]


\* A runs row as RunRepository.create inserts it (schema defaults otherwise).
NewRunRow(retryLimit) ==
  [ present |-> TRUE,
    status |-> "running",
    ci_status |-> "pending",
    retry_limit |-> retryLimit,
    project_type |-> "unknown",
    failures_count |-> 0,
    fixes_count |-> 0,
    commit_count |-> 0,
    current_iteration |-> 0,
    base_score |-> 0,
    efficiency_penalty |-> 0,
    issues |-> 0,
    error |-> "",
    finished |-> FALSE ]

\* RunRepository.updateProgress: only the supplied columns are written.
updateProgress(row, data) ==
  IF ~row.present THEN row
  ELSE [c \in DOMAIN row |-> IF c \in DOMAIN data THEN data[c] ELSE row[c]]

\* An UPDATE of a runs row waits while another session holds its row lock.
CanWrite(r, who) == lock[r] \in {Free, who}

\* testRunner.executeTests: skipped without commands, else the exit code decides.
SkippedResult ==
  [passed |-> FALSE, exitCode |-> -1, failedTests |-> 0,
   executionMethod |-> "skipped"]

ExecutedResult(exitCode, failed) ==
  [passed |-> (exitCode = 0), exitCode |-> exitCode, failedTests |-> failed,
   executionMethod |-> "subprocess"]

executeTests(projectType, failedCounts) ==
  IF projectType = "unknown"
    THEN {SkippedResult}
    ELSE {ExecutedResult(0, 0)} \cup
         {ExecutedResult(e, f) : e \in ExitCodes \ {0}, f \in failedCounts}

TestRow(r, iteration, phase, res) ==
  [run_id |-> r, iteration |-> iteration, phase |-> phase,
   passed |-> res.passed, exit_code |-> res.exitCode,
   execution_method |-> res.executionMethod]

\* analyzerAgent / verifierAgent: failures attributed to the real execution.
realFailures(res) == IF res.passed THEN 0 ELSE Max(1, res.failedTests)

\* analyzerAgent: the initial CI status.
analyzerCiStatus(res, issues) ==
  IF res.passed THEN (IF issues = 0 THEN "passed" ELSE "running")
  ELSE "running"

\* The throw of an agent node: the error leaves graph.invoke.
Throw(r, message) ==
  /\ err' = [err EXCEPT ![r] = message]
  /\ pc' = [pc EXCEPT ![r] = "graphCatch"]

(* ------------------------------------------------------------------ *)
(* Initial states                                                       *)
(* ------------------------------------------------------------------ *)

InitRest ==
  /\ st = [r \in Runs |-> InitialAgentState(0)]
  /\ err = [r \in Runs |-> ""]
  /\ loc = [r \in Runs |-> NoLocals]
  /\ activeClonePaths = [r \in Runs |-> 0]
  /\ tempRoots = {}
  /\ created = <<>>
  /\ cleanups = [r \in Runs |-> <<>>]
  /\ pushes = [r \in Runs |-> <<>>]
  /\ dbRuns = [r \in Runs |-> NoRow]
  /\ dbTransitions = [r \in Runs |-> <<>>]
  /\ dbPatches = [r \in Runs |-> <<>>]
  /\ dbTimeline = [r \in Runs |-> <<>>]
  /\ dbTests = [r \in Runs |-> <<>>]
  /\ tx = [r \in Runs |-> NoTx]
  /\ lock = [r \in Runs |-> Free]
  /\ cb = [c \in Callbacks |-> [pc |-> "idle", runId |-> "r1", status |-> "absent",
                                fromStatus |-> ""]]

\* The state of a started process: nothing in memory, on disk or in the
\* database, and no executor call under study.
InitCommon ==
  /\ InitRest
  /\ exe = NoCall
  /\ file = NoFile
  /\ probe = NoProbe
  /\ scan = NoScan

\* Repositories of any project type, any number of extracted failure lines.
FullWorld ==
  [types |-> ProjectTypes, failed |-> FailedTestCounts, issues |-> 0..MaxIssues,
   AGENT_RETRY_LIMIT |-> EnvUnset]

\* Repositories with a recognised manifest only.
NarrowWorld ==
  [types |-> {"node"}, failed |-> {0}, issues |-> {0, 1},
   AGENT_RETRY_LIMIT |-> EnvUnset]

\* One request is submitted: a retryLimit with any repository, or no usable
\* retryLimit (the configured default applies) with a recognised repository.
Init ==
  /\ InitCommon
  /\ body \in [Runs -> RetryInputs \cup {NoBody}]
  /\ body["r2"] = NoBody
  /\ world = IF body["r1"].finite THEN FullWorld ELSE NarrowWorld
  /\ pc = [r \in Runs |-> IF r = "r1" THEN "received" ELSE "none"]

\* Two requests are submitted and are handled concurrently.
InitConc ==
  /\ InitCommon
  /\ world = NarrowWorld
  /\ body \in [Runs -> RetryInputsConc]
  /\ pc = [r \in Runs |-> "received"]

\* One request is submitted, and sandbox callbacks arrive while it is handled.
InitCallback ==
  /\ InitCommon
  /\ world = NarrowWorld
  /\ body \in [Runs -> RetryInputsCallback \cup {NoBody}]
  /\ body["r2"] = NoBody
  /\ pc = [r \in Runs |-> IF r = "r1" THEN "received" ELSE "none"]

(* ------------------------------------------------------------------ *)
(* POST /api/agent/runs and the agent graph                             *)
(* ------------------------------------------------------------------ *)

\* RunRepository.create, then runAgentGraph starts graph.invoke.
Create(r) ==
  /\ pc[r] = "received"
  /\ \/ /\ dbRuns' = [dbRuns EXCEPT ![r] = NewRunRow(clampRetryLimit(body[r]))]
        /\ dbTransitions' = [dbTransitions EXCEPT ![r] = Append(@,
             [run_id |-> r, from_status |-> "null", to_status |-> "running",
              reason |-> "Run created"])]
        /\ st' = [st EXCEPT ![r] = InitialAgentState(clampRetryLimit(body[r]))]
        /\ pc' = [pc EXCEPT ![r] = "planner"]
        /\ UNCHANGED err
     \/ \* the datastore is unreachable: the rejection is not handled
        /\ pc' = [pc EXCEPT ![r] = "unhandled"]
        /\ err' = [err EXCEPT ![r] = "db"]
        /\ UNCHANGED <<dbRuns, dbTransitions, st>>
  /\ body' = [body EXCEPT ![r] = NoBody]
  /\ UNCHANGED <<world, toolVars, loc, fsVars, dbPatches, dbTimeline, dbTests,
                 tx, lock, cb>>

plannerAgent(r) ==
  /\ pc[r] = "planner"
  /\ st' = [st EXCEPT ![r].ciStatus = "running", ![r].currentIteration = 0]
  /\ pc' = [pc EXCEPT ![r] = "analyzer"]
  /\ UNCHANGED <<envVars, err, loc, fsVars, dbVars, cb>>

analyzerAgent(r) ==
  /\ pc[r] = "analyzer"
  /\ \/ \* cloneRepository fails and removes its own temp root
        /\ Throw(r, "clone")
        /\ UNCHANGED <<st, fsVars, dbRuns, dbTests>>
     \/ LET clonePath == Len(created) + 1 IN
        /\ created' = Append(created, r)
        /\ tempRoots' = tempRoots \cup {clonePath}
        /\ activeClonePaths' = [activeClonePaths EXCEPT ![r] = clonePath]
        /\ UNCHANGED <<cleanups, gitVars>>
        /\ \/ \* configureGitIdentity or createBranch fails
              /\ Throw(r, "git")
              /\ UNCHANGED <<st, dbRuns, dbTests>>
           \/ \E type \in world.types :
              \E res \in executeTests(type, world.failed) :
                \/ \* TestResultRepository.create fails
                   /\ Throw(r, "db")
                   /\ UNCHANGED <<st, dbRuns, dbTests>>
                \/ /\ dbTests' = [dbTests EXCEPT ![r] =
                        Append(@, TestRow(r, 0, "baseline", res))]
                   /\ \/ \* scanForIssues fails
                         /\ Throw(r, "scan")
                         /\ UNCHANGED <<st, dbRuns>>
                      \/ \E n \in world.issues :
                           LET total == realFailures(res) + n
                               ci == analyzerCiStatus(res, n) IN
                           \/ \* updateProgress fails
                              /\ Throw(r, "db")
                              /\ UNCHANGED <<st, dbRuns>>
                           \/ /\ CanWrite(r, Handler)
                              /\ dbRuns' = [dbRuns EXCEPT ![r] =
                                   updateProgress(@,
                                     [ci_status |-> ci, project_type |-> type,
                                      failures_count |-> total, issues |-> n])]
                              /\ st' = [st EXCEPT
                                   ![r].clonePath = clonePath,
                                   ![r].projectType = type,
                                   ![r].testResults = res,
                                   ![r].issues = n,
                                   ![r].failuresCount = total,
                                   ![r].ciStatus = ci]
                              /\ pc' = [pc EXCEPT ![r] = "remediator"]
                              /\ UNCHANGED err
  /\ UNCHANGED <<envVars, loc, dbTransitions, dbPatches, dbTimeline, tx, lock, cb>>


\* n copies of x
Rep(n, x) == [i \in 1..n |-> x]

\* remediationAgent: the applied patches first, then the unapplied ones.
newFixes(applied, failed) == Rep(applied, "passed") \o Rep(failed, "failed")

\* Fault model: an entry that always carries iteration 1.
TimelineEntryFirst(iteration, result, retryLimit) ==
  [iteration |-> 1, result |-> result, retryCount |-> iteration,
   retryLimit |-> retryLimit]

TimelineEntry(iteration, result, retryLimit) ==
  [iteration |-> iteration, result |-> result, retryCount |-> iteration,
   retryLimit |-> retryLimit]

\* remediationAgent up to the call of PatchRepository.recordIteration.
remediationAgent(r) ==
  /\ pc[r] = "remediator"
  /\ LET s == st[r]
         iteration == s.currentIteration + 1 IN
     IF s.issues = 0
       THEN /\ loc' = [loc EXCEPT ![r] =
                 [kind |-> "remediate", noIssues |-> TRUE,
                  iteration |-> iteration, fixes |-> <<>>, applied |-> 0,
                  commitCount |-> s.commitCount, commitSha |-> FALSE,
                  entry |-> TimelineEntry(iteration, "passed", s.retryLimit)]]
            /\ pc' = [pc EXCEPT ![r] = "recordIteration"]
            /\ UNCHANGED err
       ELSE \/ \* applyAllPatches fails (a file cannot be written)
               /\ Throw(r, "patch")
               /\ UNCHANGED loc
            \/ \E applied \in 0..s.issues :
                 LET failed == s.issues - applied
                     result == IF failed > 0 THEN "failed" ELSE "passed" IN
                 \/ \* stageAndCommit fails
                    /\ applied > 0
                    /\ Throw(r, "commit")
                    /\ UNCHANGED loc
                 \/ \E sha \in (IF applied > 0 THEN BOOLEAN ELSE {FALSE}) :
                      /\ loc' = [loc EXCEPT ![r] =
                           [kind |-> "remediate", noIssues |-> FALSE,
                            iteration |-> iteration,
                            fixes |-> newFixes(applied, failed),
                            applied |-> applied,
                            commitCount |->
                              IF sha THEN s.commitCount + 1 ELSE s.commitCount,
                            commitSha |-> sha,
                            entry |-> TimelineEntry(iteration, result,
                                                    s.retryLimit)]]
                      /\ pc' = [pc EXCEPT ![r] = "recordIteration"]
                      /\ UNCHANGED err
  /\ UNCHANGED <<envVars, st, fsVars, dbVars, cb>>

\* Fault model: statements that are not undone (no enclosing transaction).
keepWritten(t) == t

\* withTransaction ROLLBACK (and the server's abort of a transaction whose
\* connection is lost): the rows of the open transaction that stay persisted.
rolledBack(t) == NoTx

PatchRow(r, iteration, status, sha) ==
  [run_id |-> r, iteration |-> iteration, status |-> status, commit_sha |-> sha]

\* Fault model: a persisted retry count that starts at 0.
TimelineRowFromZero(r, entry) ==
  [run_id |-> r, iteration |-> entry.iteration, result |-> entry.result,
   retry_count |-> entry.retryCount - 1, retry_limit |-> entry.retryLimit]

TimelineRow(r, entry) ==
  [run_id |-> r, iteration |-> entry.iteration, result |-> entry.result,
   retry_count |-> entry.retryCount, retry_limit |-> entry.retryLimit]

\* recordIteration: INSERT INTO patches, one row per statement.
recordIterationPatch(r) ==
  /\ pc[r] = "recordIteration"
  /\ Len(tx[r].patches) < Len(loc[r].fixes)
  /\ tx' = [tx EXCEPT ![r].patches = Append(@,
       PatchRow(r, loc[r].iteration, loc[r].fixes[Len(tx[r].patches) + 1],
                loc[r].commitSha))]
  /\ UNCHANGED <<pc, envVars, memVars, fsVars, dbRuns, dbTransitions, dbPatches,
                 dbTimeline, dbTests, lock, cb>>

\* recordIteration: INSERT INTO timeline_entries.
recordIterationTimeline(r) ==
  /\ pc[r] = "recordIteration"
  /\ Len(tx[r].patches) = Len(loc[r].fixes)
  /\ tx[r].timeline = <<>>
  /\ tx' = [tx EXCEPT ![r].timeline = <<TimelineRow(r, loc[r].entry)>>]
  /\ UNCHANGED <<pc, envVars, memVars, fsVars, dbRuns, dbTransitions, dbPatches,
                 dbTimeline, dbTests, lock, cb>>

\* recordIteration: COMMIT.
recordIterationCommit(r) ==
  /\ pc[r] = "recordIteration"
  /\ tx[r].timeline # <<>>
  /\ dbPatches' = [dbPatches EXCEPT ![r] = @ \o tx[r].patches]
  /\ dbTimeline' = [dbTimeline EXCEPT ![r] = @ \o tx[r].timeline]
  /\ tx' = [tx EXCEPT ![r] = NoTx]
  /\ pc' = [pc EXCEPT ![r] = "remediatorFinish"]
  /\ UNCHANGED <<envVars, memVars, fsVars, dbRuns, dbTransitions, dbTests, lock, cb>>

\* recordIteration: a statement (or COMMIT) fails; ROLLBACK, and the error is thrown.
recordIterationFail(r) ==
  /\ pc[r] = "recordIteration"
  /\ dbPatches' = [dbPatches EXCEPT ![r] = @ \o rolledBack(tx[r]).patches]
  /\ dbTimeline' = [dbTimeline EXCEPT ![r] = @ \o rolledBack(tx[r]).timeline]
  /\ tx' = [tx EXCEPT ![r] = NoTx]
  /\ Throw(r, "db")
  /\ UNCHANGED <<envVars, st, loc, fsVars, dbRuns, dbTransitions, dbTests, lock, cb>>

\* remediationAgent after recordIteration: updateProgress and the partial update.
remediationFinish(r) ==
  /\ pc[r] = "remediatorFinish"
  /\ LET s == st[r]
         l == loc[r] IN
     \/ \* updateProgress fails
        /\ Throw(r, "db")
        /\ UNCHANGED <<st, dbRuns>>
     \/ /\ CanWrite(r, Handler)
        /\ pc' = [pc EXCEPT ![r] = "verifier"]
        /\ UNCHANGED err
        /\ IF l.noIssues
             THEN /\ dbRuns' = [dbRuns EXCEPT ![r] = updateProgress(@,
                       [current_iteration |-> l.iteration,
                        ci_status |-> "passed"])]
                  /\ st' = [st EXCEPT
                       ![r].currentIteration = l.iteration,
                       ![r].ciStatus = "passed",
                       ![r].timeline = Append(@, l.entry)]
             ELSE /\ dbRuns' = [dbRuns EXCEPT ![r] = updateProgress(@,
                       [fixes_count |-> Len(s.fixesTable) + l.applied,
                        commit_count |-> l.commitCount,
                        current_iteration |-> l.iteration])]
                  /\ st' = [st EXCEPT
                       ![r].fixesTable = @ \o l.fixes,
                       ![r].timeline = Append(@, l.entry),
                       ![r].fixesCount = Len(s.fixesTable) + l.applied,
                       ![r].commitCount = l.commitCount,
                       ![r].currentIteration = l.iteration]
  /\ loc' = [loc EXCEPT ![r] = NoLocals]
  /\ UNCHANGED <<envVars, fsVars, dbTransitions, dbPatches, dbTimeline, dbTests,
                 tx, lock, cb>>

\* verifierAgent: the CI status after a verification run.
verifierCiStatus(res) == IF res.passed THEN "passed" ELSE "failed"

verifierFailures(res, remaining) ==
  IF res.passed THEN remaining ELSE remaining + Max(1, res.failedTests)

verifierAgent(r) ==
  /\ pc[r] = "verifier"
  /\ LET s == st[r] IN
     IF s.ciStatus = "passed"
       THEN /\ pc' = [pc EXCEPT ![r] = "routing"]
            /\ UNCHANGED <<st, err, dbRuns, dbTests>>
       ELSE \E res \in executeTests(s.projectType, world.failed) :
              \/ \* TestResultRepository.create fails
                 /\ Throw(r, "db")
                 /\ UNCHANGED <<st, dbRuns, dbTests>>
              \/ /\ dbTests' = [dbTests EXCEPT ![r] = Append(@,
                      TestRow(r, s.currentIteration, "verification", res))]
                 /\ \/ \* scanForIssues fails
                       /\ Throw(r, "scan")
                       /\ UNCHANGED <<st, dbRuns>>
                    \/ \E remaining \in world.issues :
                         LET ci == verifierCiStatus(res)
                             failures == verifierFailures(res, remaining) IN
                         \/ \* updateProgress fails
                            /\ Throw(r, "db")
                            /\ UNCHANGED <<st, dbRuns>>
                         \/ /\ CanWrite(r, Handler)
                            /\ dbRuns' = [dbRuns EXCEPT ![r] = updateProgress(@,
                                 [ci_status |-> ci, failures_count |-> failures,
                                  issues |-> remaining])]
                            /\ st' = [st EXCEPT
                                 ![r].testResults = res,
                                 ![r].issues = remaining,
                                 ![r].failuresCount = failures,
                                 ![r].ciStatus = ci]
                            /\ pc' = [pc EXCEPT ![r] = "routing"]
                            /\ UNCHANGED err
  /\ UNCHANGED <<envVars, loc, fsVars, dbTransitions, dbPatches, dbTimeline,
                 tx, lock, cb>>

\* Fault model: a router that ignores the retry limit.
routeUntilPassed(s) ==
  IF s.ciStatus = "passed" THEN "scorer" ELSE "remediator"

\* Fault model: a router that looks at the retry limit only.
routeOnLimitOnly(s) ==
  IF s.currentIteration >= s.retryLimit THEN "scorer" ELSE "remediator"

\* Fault model: a router that allows one cycle beyond the retry limit.
routeOneMore(s) ==
  IF s.ciStatus = "passed" THEN "scorer"
  ELSE IF s.currentIteration > s.retryLimit THEN "scorer"
  ELSE "remediator"

\* The conditional edge after the verifier.
routeAfterVerification(s) ==
  IF s.ciStatus = "passed" THEN "scorer"
  ELSE IF s.currentIteration >= s.retryLimit THEN "scorer"
  ELSE "remediator"

Route(r) ==
  /\ pc[r] = "routing"
  /\ pc' = [pc EXCEPT ![r] = routeAfterVerification(st[r])]
  /\ UNCHANGED <<envVars, memVars, fsVars, dbVars, cb>>


\* Fault model: a cleanup that removes every temp root of the process.
cleanupAll(roots, clonePath) == {}

\* dockerSandbox.cleanupWorkspace: recursive, forced removal of the temp root.
cleanupWorkspace(roots, clonePath) == roots \ {clonePath}

\* Fault model: the scorer leaves the run's entry in activeClonePaths.
keepActive(map, r) == map

\* scoringAgent: activeClonePaths.delete(state.runId) after the cleanup.
deleteActive(map, r) == [map EXCEPT ![r] = 0]

\* Fault model: a base score that looks at the pass flag only.
baseScoreByPassFlag(res) == IF res.passed THEN ScorePassed ELSE ScoreFailed

\* scoringAgent: the base score.
baseScore(res) ==
  IF res.executionMethod = "skipped" THEN ScoreSkipped
  ELSE IF res.passed THEN ScorePassed
  ELSE ScoreFailed

efficiencyPenalty(commitCount) == Max(0, commitCount - FreeCommits) * PenaltyPerCommit

\* scoringAgent: the condition under which pushBranch is called.
pushAttempted(githubToken, clonePath, commitCount) ==
  githubToken /\ clonePath # 0 /\ commitCount > 0

\* Fault model: a rejected push leaves the graph.
afterPushFatal(ok) == IF ok THEN "finalizeScoring" ELSE "graphCatch"

\* scoringAgent: where the node goes on after the try/catch around
\* pushBranch, whether the push resolved (ok) or rejected.
afterPush(ok) == "finalizeScoring"

\* A call of pushBranch: whether it resolved, and whether the workspace was
\* on disk when it ran.
PushCall(ok, clonePath, roots) == [ok |-> ok, workspace |-> clonePath \in roots]

\* scoringAgent up to the call of RunRepository.finalizeScoring: the push is
\* attempted (its failure is caught), then the workspace is cleaned up.
scoringAgent(r) ==
  /\ pc[r] = "scorer"
  /\ LET s == st[r] IN
     /\ \E githubToken \in BOOLEAN, ok \in BOOLEAN :
          IF pushAttempted(githubToken, s.clonePath, s.commitCount)
            THEN /\ pushes' = [pushes EXCEPT ![r] =
                      Append(@, PushCall(ok, s.clonePath, tempRoots))]
                 /\ pc' = [pc EXCEPT ![r] = afterPush(ok)]
            ELSE /\ UNCHANGED pushes
                 /\ pc' = [pc EXCEPT ![r] = "finalizeScoring"]
     /\ IF s.clonePath # 0
          THEN /\ tempRoots' = cleanupWorkspace(tempRoots, s.clonePath)
               /\ cleanups' = [cleanups EXCEPT ![r] = Append(@, s.clonePath)]
               /\ activeClonePaths' = deleteActive(activeClonePaths, r)
          ELSE UNCHANGED <<tempRoots, cleanups, activeClonePaths>>
     /\ loc' = [loc EXCEPT ![r] =
          [kind |-> "scoring",
           baseScore |-> baseScore(s.testResults),
           efficiencyPenalty |-> efficiencyPenalty(s.commitCount),
           ciStatus |-> s.ciStatus,
           failuresCount |-> s.failuresCount,
           fromStatus |-> "null"]]
  /\ UNCHANGED <<envVars, st, err, created, dbVars, cb>>

\* Fault model: a status read that takes no row lock.
noRowLock(holder) == TRUE

\* SELECT ... FOR UPDATE waits until no other transaction holds the row lock.
rowLockAvailable(holder) == holder = Free

\* SELECT status FROM runs WHERE id = $1 FOR UPDATE
lockedStatus(row) == IF row.present THEN row.status ELSE "null"

\* finalizeScoring: BEGIN and the locking read of the current status.
finalizeScoringBegin(r) ==
  /\ pc[r] = "finalizeScoring"
  /\ rowLockAvailable(lock[r])
  /\ lock' = [lock EXCEPT ![r] = Handler]
  /\ loc' = [loc EXCEPT ![r].fromStatus = lockedStatus(dbRuns[r])]
  /\ pc' = [pc EXCEPT ![r] = "finalizeCommit"]
  /\ UNCHANGED <<envVars, st, err, fsVars, dbRuns, dbTransitions, dbPatches,
                 dbTimeline, dbTests, tx, cb>>

TransitionRow(r, from, to, reason) ==
  [run_id |-> r, from_status |-> from, to_status |-> to, reason |-> reason]

\* Fault model: a finalizeScoring whose UPDATE leaves the status column alone.
finalizeScoresOnly(row, scoring) ==
  IF ~row.present THEN row
  ELSE [row EXCEPT !.base_score = scoring.baseScore,
                   !.efficiency_penalty = scoring.efficiencyPenalty,
                   !.ci_status = scoring.ciStatus,
                   !.failures_count = scoring.failuresCount,
                   !.finished = TRUE]

\* finalizeScoring: the UPDATE of the scoring columns and the status.
finalizeRow(row, scoring) ==
  IF ~row.present THEN row
  ELSE [row EXCEPT !.base_score = scoring.baseScore,
                   !.efficiency_penalty = scoring.efficiencyPenalty,
                   !.ci_status = scoring.ciStatus,
                   !.failures_count = scoring.failuresCount,
                   !.status = "completed",
                   !.finished = TRUE]

\* finalizeScoring: UPDATE, INSERT of the transition row, COMMIT; scoringAgent returns.
finalizeScoringCommit(r) ==
  /\ pc[r] = "finalizeCommit"
  /\ dbRuns' = [dbRuns EXCEPT ![r] = finalizeRow(@, loc[r])]
  /\ dbTransitions' = [dbTransitions EXCEPT ![r] = Append(@,
       TransitionRow(r, loc[r].fromStatus, "completed", "Scoring finalized"))]
  /\ lock' = [lock EXCEPT ![r] = Free]
  /\ st' = [st EXCEPT ![r].baseScore = loc[r].baseScore,
                      ![r].efficiencyPenalty = loc[r].efficiencyPenalty]
  /\ loc' = [loc EXCEPT ![r] = NoLocals]
  /\ pc' = [pc EXCEPT ![r] = "graphReturned"]
  /\ UNCHANGED <<envVars, err, fsVars, dbPatches, dbTimeline, dbTests, tx, cb>>

\* finalizeScoring: the datastore fails; ROLLBACK releases the lock, the error is thrown.
finalizeScoringFail(r) ==
  /\ pc[r] \in {"finalizeScoring", "finalizeCommit"}
  /\ lock' = [lock EXCEPT ![r] = IF @ = Handler THEN Free ELSE @]
  /\ loc' = [loc EXCEPT ![r] = NoLocals]
  /\ Throw(r, "db")
  /\ UNCHANGED <<envVars, st, fsVars, dbRuns, dbTransitions, dbPatches, dbTimeline,
                 dbTests, tx, cb>>

\* runAgentGraph catch: activeClonePaths.get(input.runId)
trackedPath(map, r) == map[r]

\* runAgentGraph catch: release the tracked workspace, rethrow (the state
\* accumulated by graph.invoke is lost with the rejection).
graphCatch(r) ==
  /\ pc[r] = "graphCatch"
  /\ LET clonePath == trackedPath(activeClonePaths, r) IN
     IF clonePath # 0
       THEN /\ tempRoots' = cleanupWorkspace(tempRoots, clonePath)
            /\ cleanups' = [cleanups EXCEPT ![r] = Append(@, clonePath)]
            /\ activeClonePaths' = [activeClonePaths EXCEPT ![r] = 0]
       ELSE UNCHANGED <<tempRoots, cleanups, activeClonePaths>>
  /\ loc' = [loc EXCEPT ![r] = NoLocals]
  /\ st' = [st EXCEPT ![r] = InitialAgentState(0)]
  /\ pc' = [pc EXCEPT ![r] = "serverCatch"]
  /\ UNCHANGED <<envVars, err, created, gitVars, dbVars, cb>>

\* POST /api/agent/runs after runAgentGraph returned: persistRunResult, 201.
handlerSuccess(r) ==
  /\ pc[r] = "graphReturned"
  /\ \/ /\ pc' = [pc EXCEPT ![r] = "responded201"]
        /\ UNCHANGED err
     \/ \* persistRunResult fails: the handler's catch block runs
        /\ pc' = [pc EXCEPT ![r] = "serverCatch"]
        /\ err' = [err EXCEPT ![r] = "fs"]
  /\ UNCHANGED <<envVars, st, loc, fsVars, dbVars, cb>>

\* transitionStatus: the UPDATE of status (+ error, finished_at).
transitionRow(row, toStatus, error, finished) ==
  IF ~row.present THEN row
  ELSE [row EXCEPT !.status = toStatus,
                   !.error = IF error # "" THEN error ELSE @,
                   !.finished = IF finished THEN TRUE ELSE @]

\* The status the failure handler records.
failureStatus == "failed"

\* catch block of POST /api/agent/runs: transitionStatus begins (locking read).
failBegin(r) ==
  /\ pc[r] = "serverCatch"
  /\ rowLockAvailable(lock[r])
  /\ lock' = [lock EXCEPT ![r] = Handler]
  /\ loc' = [loc EXCEPT ![r] =
       [kind |-> "fail", fromStatus |-> lockedStatus(dbRuns[r])]]
  /\ pc' = [pc EXCEPT ![r] = "failCommit"]
  /\ UNCHANGED <<envVars, st, err, fsVars, dbRuns, dbTransitions, dbPatches,
                 dbTimeline, dbTests, tx, cb>>

\* catch block: transitionStatus UPDATE, INSERT, COMMIT.
failCommit(r) ==
  /\ pc[r] = "failCommit"
  /\ dbRuns' = [dbRuns EXCEPT ![r] = transitionRow(@, failureStatus, err[r], TRUE)]
  /\ dbTransitions' = [dbTransitions EXCEPT ![r] = Append(@,
       TransitionRow(r, loc[r].fromStatus, failureStatus, err[r]))]
  /\ lock' = [lock EXCEPT ![r] = Free]
  /\ loc' = [loc EXCEPT ![r] = NoLocals]
  /\ pc' = [pc EXCEPT ![r] = "failPersist"]
  /\ UNCHANGED <<envVars, st, err, fsVars, dbPatches, dbTimeline, dbTests, tx, cb>>

\* catch block: transitionStatus fails; the rejection is not handled.
failAbort(r) ==
  /\ pc[r] \in {"serverCatch", "failCommit"}
  /\ lock' = [lock EXCEPT ![r] = IF @ = Handler THEN Free ELSE @]
  /\ loc' = [loc EXCEPT ![r] = NoLocals]
  /\ pc' = [pc EXCEPT ![r] = "unhandled"]
  /\ UNCHANGED <<envVars, st, err, fsVars, dbRuns, dbTransitions, dbPatches,
                 dbTimeline, dbTests, tx, cb>>

\* catch block: persistRunResult of the fallback result, then the 500 response.
failRespond(r) ==
  /\ pc[r] = "failPersist"
  /\ \/ pc' = [pc EXCEPT ![r] = "responded500"]
     \/ pc' = [pc EXCEPT ![r] = "unhandled"]
  /\ UNCHANGED <<envVars, memVars, fsVars, dbVars, cb>>

(* ------------------------------------------------------------------ *)
(* RunRepository.getFullResult                                          *)
(* ------------------------------------------------------------------ *)

IsApplied(row) == row.status = "passed"

\* Fault model: a fixes table built from the applied patch rows only.
appliedFixesOnly(patchRows) ==
  LET kept == SelectSeq(patchRows, IsApplied) IN
  [i \in 1..Len(kept) |-> [iteration |-> kept[i].iteration,
                           status |-> kept[i].status]]

\* getFullResult: patches (ORDER BY id) mapped to FixRow[].
fixesTableOf(patchRows) ==
  [i \in 1..Len(patchRows) |-> [iteration |-> patchRows[i].iteration,
                                status |-> patchRows[i].status]]

\* getFullResult: timeline_entries (ORDER BY id) mapped to TimelineEntry[].
timelineOf(timelineRows) ==
  [i \in 1..Len(timelineRows) |->
     [iteration |-> timelineRows[i].iteration,
      result |-> timelineRows[i].result,
      retryCount |-> timelineRows[i].retry_count,
      retryLimit |-> timelineRows[i].retry_limit]]

\* getFullResult: the latest test_results row, or the default when none.
latestTestResult(testRows) ==
  IF testRows = <<>>
    THEN [passed |-> FALSE, exitCode |-> -1, executionMethod |-> "skipped"]
    ELSE LET t == testRows[Len(testRows)] IN
         [passed |-> t.passed, exitCode |-> t.exit_code,
          executionMethod |-> t.execution_method]

\* getFullResult(runId): null for an unknown run, else the assembled RunResult.
getFullResult(r) ==
  IF ~dbRuns[r].present THEN [found |-> FALSE]
  ELSE [found |-> TRUE,
        ciStatus |-> dbRuns[r].ci_status,
        failuresCount |-> dbRuns[r].failures_count,
        fixesCount |-> dbRuns[r].fixes_count,
        commitCount |-> dbRuns[r].commit_count,
        fixesTable |-> fixesTableOf(dbPatches[r]),
        timeline |-> timelineOf(dbTimeline[r]),
        baseScore |-> dbRuns[r].base_score,
        efficiencyPenalty |-> dbRuns[r].efficiency_penalty,
        testResults |-> latestTestResult(dbTests[r]),
        projectType |-> dbRuns[r].project_type]

(* ------------------------------------------------------------------ *)
(* POST /api/sandbox/callback                                           *)
(* ------------------------------------------------------------------ *)

\* A callback request that has been answered (or has not arrived yet).
NoRequest(at) ==
  [pc |-> at, runId |-> "r1", status |-> "absent", fromStatus |-> ""]

\* status ?? "completed"
callbackStatus(status) == IF status = "absent" THEN "completed" ELSE status

\* The request arrives; findById answers 404 for an unknown run.
callbackReceive(c) ==
  /\ cb[c].pc = "idle"
  /\ \A earlier \in 1..(c - 1) : cb[earlier].pc # "idle"
  /\ \E runId \in Runs, status \in CallbackStatuses :
       cb' = [cb EXCEPT ![c] =
         IF dbRuns[runId].present
           THEN [pc |-> "transition", runId |-> runId, status |-> status,
                 fromStatus |-> ""]
           ELSE NoRequest("responded404")]
  /\ UNCHANGED <<pc, envVars, memVars, fsVars, dbVars>>

\* transitionStatus: BEGIN and the locking read.
callbackBegin(c) ==
  /\ cb[c].pc = "transition"
  /\ rowLockAvailable(lock[cb[c].runId])
  /\ lock' = [lock EXCEPT ![cb[c].runId] = CallbackSession(c)]
  /\ cb' = [cb EXCEPT ![c].pc = "commit",
                      ![c].fromStatus = lockedStatus(dbRuns[cb[c].runId])]
  /\ UNCHANGED <<pc, envVars, memVars, fsVars, dbRuns, dbTransitions, dbPatches,
                 dbTimeline, dbTests, tx>>

\* transitionStatus: UPDATE, INSERT, COMMIT; the handler answers ok.
callbackCommit(c) ==
  /\ cb[c].pc = "commit"
  /\ LET r == cb[c].runId
         to == callbackStatus(cb[c].status) IN
     /\ dbRuns' = [dbRuns EXCEPT ![r] = transitionRow(@, to, "", TRUE)]
     /\ dbTransitions' = [dbTransitions EXCEPT ![r] = Append(@,
          TransitionRow(r, cb[c].fromStatus, to, "Sandbox callback"))]
     /\ lock' = [lock EXCEPT ![r] = Free]
  /\ cb' = [cb EXCEPT ![c] = NoRequest("responded200")]
  /\ UNCHANGED <<pc, envVars, memVars, fsVars, dbPatches, dbTimeline, dbTests, tx>>

\* transitionStatus fails: ROLLBACK, the rejection is not handled.
callbackAbort(c) ==
  /\ cb[c].pc \in {"transition", "commit"}
  /\ lock' = [lock EXCEPT ![cb[c].runId] =
       IF @ = CallbackSession(c) THEN Free ELSE @]
  /\ cb' = [cb EXCEPT ![c] = NoRequest("unhandled")]
  /\ UNCHANGED <<pc, envVars, memVars, fsVars, dbRuns, dbTransitions, dbPatches,
                 dbTimeline, dbTests, tx>>

(* ------------------------------------------------------------------ *)
(* containerSandbox: runInContainer and runSubprocess                   *)
(* ------------------------------------------------------------------ *)

\* Exit codes of a command that fails, and timeouts a caller passes.
ExitNumbers == {1, 2, 137}

ExecTimeouts == {5000, TEST_TIMEOUT_MS}

\* Wall-clock times at which the child closes, for a timeout t.
ElapsedTimes(t) == {0, t - TimeoutSlackMs, t, t + 5000}

NoCode == [kind |-> "none", n |-> 0]

\* What the promisified execFile can do with a timeout t. The timer fires
\* when the child is still running after t ms: the kill signal is sent and
\* killed is set. The promise settles when the child closes: it resolves
\* when the exit code is 0 and no signal ended the child, and rejects
\* otherwise with code = the exit code (a number), a system error name (a
\* string: spawn failure, output over maxBuffer) or null (ended by a signal).
ExecFileOutcomes(t) ==
  LET early == {d \in ElapsedTimes(t) : d < t}
      late == {d \in ElapsedTimes(t) : d >= t} IN
  \* the child closes before the timer fires
  {[settled |-> "resolved", code |-> NoCode, killed |-> FALSE, elapsed |-> d] :
     d \in early}
  \cup {[settled |-> "rejected", code |-> [kind |-> "number", n |-> n],
         killed |-> FALSE, elapsed |-> d] : n \in ExitNumbers, d \in early}
  \cup {[settled |-> "rejected", code |-> [kind |-> "string", n |-> 0],
         killed |-> k, elapsed |-> d] : k \in BOOLEAN, d \in early}
  \* the timer fired: the child was ended by the signal, or handled or never
  \* received it and exited by itself, with a non-zero code or with 0
  \cup {[settled |-> "rejected", code |-> NoCode, killed |-> TRUE,
         elapsed |-> d] : d \in late}
  \cup {[settled |-> "rejected", code |-> [kind |-> "number", n |-> n],
         killed |-> TRUE, elapsed |-> d] : n \in ExitNumbers, d \in late}
  \cup {[settled |-> "resolved", code |-> NoCode, killed |-> TRUE,
         elapsed |-> d] : d \in late}

\* The ContainerResult of the try branch and of the catch branch.
resultOfSuccess(outcome) ==
  [kind |-> "value", exitCode |-> 0, durationMs |-> outcome.elapsed,
   timedOut |-> FALSE]

resultOfError(outcome, timeoutMs) ==
  [kind |-> "value",
   exitCode |-> IF outcome.code.kind = "number" THEN outcome.code.n ELSE 1,
   durationMs |-> outcome.elapsed,
   timedOut |-> (outcome.killed \/ outcome.elapsed >= timeoutMs - TimeoutSlackMs)]

\* runInContainer(config): docker run ... sh -c command, under execFile.
runInContainer(timeoutMs, outcome) ==
  IF outcome.settled = "resolved"
    THEN resultOfSuccess(outcome)
    ELSE resultOfError(outcome, timeoutMs)

\* runSubprocess(command, cwd, timeoutMs, env): sh -c command, under execFile.
runSubprocess(timeoutMs, outcome) ==
  IF outcome.settled = "resolved"
    THEN resultOfSuccess(outcome)
    ELSE resultOfError(outcome, timeoutMs)

\* A call of the executor on either path returns.
ExecutorReturns ==
  /\ exe.stage = "called"
  /\ exe' = [exe EXCEPT
       !.stage = "returned",
       !.result = IF exe.path = "container"
                    THEN runInContainer(exe.timeoutMs, exe.outcome)
                    ELSE runSubprocess(exe.timeoutMs, exe.outcome)]
  /\ UNCHANGED <<pc, body, world, file, probe, scan, memVars, fsVars, dbVars, cb>>

(* ------------------------------------------------------------------ *)
(* containerSandbox: isDockerAvailable                                  *)
(* ------------------------------------------------------------------ *)

\* `_dockerAvailable` before the first probe has settled.
NotProbed == "null"

\* The outcomes of `docker info`: it exits 0 (true), or fails or times out
\* (false).
DockerAnswers == {"true", "false"}

\* Fault model: a probe whose first check never finds the cache filled.
neverCached(cached) == FALSE

\* isDockerAvailable: _dockerAvailable !== null
isCached(cached) == cached # NotProbed

\* executeTests of run r calls isDockerAvailable: with the cache filled the
\* cached answer is returned, otherwise `docker info` is started.
probeEnter(r) ==
  /\ probe.stage = "process"
  /\ probe.pc[r] = "idle"
  /\ Len(probe.answers[r]) < MaxProbeCalls
  /\ IF isCached(probe.cached)
       THEN probe' = [probe EXCEPT !.answers[r] = Append(@, probe.cached)]
       ELSE probe' = [probe EXCEPT !.pc[r] = "docker info",
                                   !.executed = @ + 1]
  /\ UNCHANGED <<pc, body, world, exe, file, scan, memVars, fsVars, dbVars, cb>>

\* `docker info` of run r's call settles: the cache is set to the outcome
\* and the outcome is returned.
probeSettle(r) ==
  /\ probe.stage = "process"
  /\ probe.pc[r] = "docker info"
  /\ \E available \in DockerAnswers :
       probe' = [probe EXCEPT !.cached = available,
                              !.pc[r] = "idle",
                              !.answers[r] = Append(@, available)]
  /\ UNCHANGED <<pc, body, world, exe, file, scan, memVars, fsVars, dbVars, cb>>

(* ------------------------------------------------------------------ *)
(* Scanner (detectIssuesInFile) and patch engine (patchSingleFile)      *)
(* ------------------------------------------------------------------ *)

\* A file content is a string of lexemes:
\*   "x"      a character that is no white space and is part of no pattern
\*   "sp" "tab" "cr" "lf"   space, tab, carriage return, line feed
\*   "any"    an unsafe type annotation        `: any;`
\*   "unknown" its replacement                 `: unknown;`
\*   "star"   a wildcard import                `import * as m;`
\*   "log"    a debug statement                `console.log(1);`
\*   "todoc"  a TODO/FIXME comment             `// TODO!`
\*   "todo"   a TODO/FIXME outside a comment   `TODO!`
Whitespace == {"sp", "tab", "cr", "lf"}

\* The characters `.` does not match in a regular expression.
LineTerminators == {"cr", "lf"}

InputLexemes ==
  {"x", "sp", "tab", "cr", "lf", "any", "star", "log", "todoc", "todo"}

Contents == UNION {[1..n -> InputLexemes] : n \in 0..MaxContentLen}

BugTypes == {"LINTING", "IMPORT", "TYPE_ERROR", "INDENTATION", "LOGIC"}

CRLF == <<"cr", "lf">>

LF == <<"lf">>

\* content.includes(sep)
includes(content, sep) ==
  \E i \in 1..Len(content) :
    /\ i + Len(sep) - 1 <= Len(content)
    /\ SubSeq(content, i, i + Len(sep) - 1) = sep

RECURSIVE splitFrom(_, _, _)
splitFrom(s, sep, cur) ==
  IF s = <<>> THEN <<cur>>
  ELSE IF Len(s) >= Len(sep) /\ SubSeq(s, 1, Len(sep)) = sep
    THEN <<cur>> \o splitFrom(SubSeq(s, Len(sep) + 1, Len(s)), sep, <<>>)
    ELSE splitFrom(Tail(s), sep, Append(cur, Head(s)))

\* content.split(sep) for a string sep
split(content, sep) == splitFrom(content, sep, <<>>)

RECURSIVE splitLinesFrom(_, _)
splitLinesFrom(s, cur) ==
  IF s = <<>> THEN <<cur>>
  ELSE IF Head(s) = "lf" THEN <<cur>> \o splitLinesFrom(Tail(s), <<>>)
  ELSE IF Len(s) >= 2 /\ SubSeq(s, 1, 2) = CRLF
    THEN <<cur>> \o splitLinesFrom(SubSeq(s, 3, Len(s)), <<>>)
    ELSE splitLinesFrom(Tail(s), Append(cur, Head(s)))

\* content.split(/\r?\n/)
splitLines(content) == splitLinesFrom(content, <<>>)

RECURSIVE join(_, _)
\* lines.join(sep)
join(lines, sep) ==
  IF lines = <<>> THEN <<>>
  ELSE IF Len(lines) = 1 THEN lines[1]
  ELSE lines[1] \o sep \o join(Tail(lines), sep)

\* /\s+$/.test(line)
hasTrailingWhitespace(line) ==
  Len(line) > 0 /\ line[Len(line)] \in Whitespace

\* /^\s*from\s+.+\s+import\s+\*/.test(line) || /^\s*import\s+\*\s+as\s+/.test(line)
isWildcardImport(line) ==
  \E i \in 1..Len(line) :
    line[i] = "star" /\ \A j \in 1..(i - 1) : line[j] \in Whitespace

\* /:\s*any\b/.test(line) || /\bas\s+any\b/.test(line)
hasAnyType(line) == \E i \in 1..Len(line) : line[i] = "any"

\* /^\t+/.test(line), /^\t/.test(line)
hasTabIndent(line) == Len(line) > 0 /\ line[1] = "tab"

\* /console\.log\(/.test(line)
hasConsoleLog(line) == \E i \in 1..Len(line) : line[i] = "log"

\* /\/\/\s*(TODO|FIXME)/.test(line)
hasTodoComment(line) == \E i \in 1..Len(line) : line[i] = "todoc"

\* /TODO|FIXME/.test(line)
hasTodo(line) == \E i \in 1..Len(line) : line[i] \in {"todo", "todoc"}

\* Fault model: an issue list of a file without the cap of three.
pushIssueUncapped(issues, bugType, lineNumber) ==
  Append(issues, [bugType |-> bugType, lineNumber |-> lineNumber])

\* pushIssue: the issue is dropped when the file already has three.
pushIssue(issues, bugType, lineNumber) ==
  IF Len(issues) >= MaxIssuesPerFile THEN issues
  ELSE Append(issues, [bugType |-> bugType, lineNumber |-> lineNumber])

RECURSIVE scanFrom(_, _, _, _)
\* The loop of detectIssuesInFile from line `index`; seen holds the
\* categories whose seen flag is set.
scanFrom(lines, index, issues, seen) ==
  IF index > Len(lines) THEN issues
  ELSE
    LET line == lines[index] IN
    IF "LINTING" \notin seen /\ hasTrailingWhitespace(line)
      THEN scanFrom(lines, index + 1, pushIssue(issues, "LINTING", index),
                    seen \cup {"LINTING"})
    ELSE IF "IMPORT" \notin seen /\ isWildcardImport(line)
      THEN scanFrom(lines, index + 1, pushIssue(issues, "IMPORT", index),
                    seen \cup {"IMPORT"})
    ELSE IF "TYPE_ERROR" \notin seen /\ hasAnyType(line)
      THEN scanFrom(lines, index + 1, pushIssue(issues, "TYPE_ERROR", index),
                    seen \cup {"TYPE_ERROR"})
    ELSE IF "INDENTATION" \notin seen /\ hasTabIndent(line)
      THEN scanFrom(lines, index + 1, pushIssue(issues, "INDENTATION", index),
                    seen \cup {"INDENTATION"})
    ELSE
      LET logic == "LOGIC" \notin seen /\ (hasTodo(line) \/ hasConsoleLog(line))
          issues2 == IF logic THEN pushIssue(issues, "LOGIC", index) ELSE issues
          seen2 == IF logic THEN seen \cup {"LOGIC"} ELSE seen IN
      IF Len(issues2) >= MaxIssuesPerFile THEN issues2
      ELSE scanFrom(lines, index + 1, issues2, seen2)

\* detectIssuesInFile(absolutePath, repoRoot) on a file with this content.
detectIssuesInFile(content) ==
  IF Len(content) > MAX_FILE_BYTES THEN <<>>
  ELSE scanFrom(splitLines(content), 1, <<>>, {})

RECURSIVE trimEnd(_)
\* line.trimEnd()
trimEnd(line) ==
  IF hasTrailingWhitespace(line) THEN trimEnd(SubSeq(line, 1, Len(line) - 1))
  ELSE line

RECURSIVE replaceTabs(_)
\* line.replace(/\t/g, "  ")
replaceTabs(line) ==
  IF line = <<>> THEN <<>>
  ELSE (IF Head(line) = "tab" THEN <<"sp", "sp">> ELSE <<Head(line)>>)
       \o replaceTabs(Tail(line))

\* line.replace(/:\s*any\b/g, ": unknown") and .replace(/\bas\s+any\b/g, "as unknown")
replaceAny(line) ==
  [i \in 1..Len(line) |-> IF line[i] = "any" THEN "unknown" ELSE line[i]]

\* line.replace(/\s*\/\/\s*(TODO|FIXME).*$/, ""): the leftmost comment that
\* no line terminator follows is cut with the white space before it.
stripTodoComment(line) ==
  LET ends == {i \in 1..Len(line) :
                 /\ line[i] = "todoc"
                 /\ \A j \in (i + 1)..Len(line) : line[j] \notin LineTerminators}
  IN IF ends = {} THEN line
     ELSE LET i == CHOOSE k \in ends : \A m \in ends : k <= m
              p == CHOOSE k \in 1..i :
                     /\ \A j \in k..(i - 1) : line[j] \in Whitespace
                     /\ \A m \in 1..(k - 1) :
                          \E j \in m..(i - 1) : line[j] \notin Whitespace
          IN SubSeq(line, 1, p - 1)

\* cleaned.trim() === ""
isBlank(line) == \A i \in 1..Len(line) : line[i] \in Whitespace

NoFix == [kind |-> "none"]

Replace(replacement, description) ==
  [kind |-> "replace", replacement |-> replacement, description |-> description]

Delete(description) == [kind |-> "delete", description |-> description]

\* computeLineFix(line, bugType)
computeLineFix(line, bugType) ==
  CASE bugType = "LINTING" ->
         IF trimEnd(line) # line
           THEN Replace(trimEnd(line), "Removed trailing whitespace")
           ELSE NoFix
    [] bugType = "INDENTATION" ->
         IF hasTabIndent(line)
           THEN Replace(replaceTabs(line), "Replaced tabs with spaces")
           ELSE NoFix
    [] bugType = "TYPE_ERROR" ->
         IF hasAnyType(line)
           THEN Replace(replaceAny(line), "Replaced any with unknown")
           ELSE NoFix
    [] bugType = "IMPORT" ->
         IF isWildcardImport(line)
           THEN Delete("Removed wildcard import statement")
           ELSE NoFix
    [] bugType = "LOGIC" ->
         IF hasConsoleLog(line)
           THEN Delete("Removed console.log debug statement")
         ELSE IF hasTodoComment(line)
           THEN IF isBlank(stripTodoComment(line))
                  THEN Delete("Removed TODO/FIXME comment line")
                  ELSE Replace(stripTodoComment(line),
                               "Removed inline TODO/FIXME comment")
         ELSE IF hasTodo(line)
           THEN Delete("Removed TODO/FIXME line")
         ELSE NoFix
    [] OTHER -> NoFix

\* Fault model: the issues are processed in the order they were handed in.
keepOrder(issues) == issues

\* Fault model: every result is reported as applied.
PatchResultApplied(issue, applied, description) ==
  [bugType |-> issue.bugType, lineNumber |-> issue.lineNumber,
   applied |-> TRUE, description |-> description]

RECURSIVE sortDescending(_)
\* [...issues].sort((a, b) => b.lineNumber - a.lineNumber), a stable sort
sortDescending(issues) ==
  IF issues = <<>> THEN <<>>
  ELSE LET i == CHOOSE k \in 1..Len(issues) :
                  /\ \A m \in 1..Len(issues) :
                       issues[m].lineNumber <= issues[k].lineNumber
                  /\ \A m \in 1..(k - 1) :
                       issues[m].lineNumber < issues[k].lineNumber
       IN <<issues[i]>>
          \o sortDescending(SubSeq(issues, 1, i - 1)
                            \o SubSeq(issues, i + 1, Len(issues)))

PatchResult(issue, applied, description) ==
  [bugType |-> issue.bugType, lineNumber |-> issue.lineNumber,
   applied |-> applied, description |-> description]

RECURSIVE patchLoop(_, _, _, _)
\* The loop of patchSingleFile over the sorted issues.
patchLoop(lines, sorted, results, modified) ==
  IF sorted = <<>>
    THEN [lines |-> lines, results |-> results, modified |-> modified]
  ELSE
    LET issue == Head(sorted)
        idx == issue.lineNumber
    IN IF idx < 1 \/ idx > Len(lines)
         THEN patchLoop(lines, Tail(sorted),
                        Append(results, PatchResult(issue, FALSE, "out of range")),
                        modified)
       ELSE
         LET fix == computeLineFix(lines[idx], issue.bugType) IN
         IF fix = NoFix
           THEN patchLoop(lines, Tail(sorted),
                          Append(results,
                                 PatchResult(issue, FALSE,
                                             "Pattern no longer matches")),
                          modified)
         ELSE
           patchLoop(IF fix.kind = "delete"
                       THEN SubSeq(lines, 1, idx - 1)
                            \o SubSeq(lines, idx + 1, Len(lines))
                       ELSE [lines EXCEPT ![idx] = fix.replacement],
                     Tail(sorted),
                     Append(results, PatchResult(issue, TRUE, fix.description)),
                     TRUE)

\* patchSingleFile(filePath, issues, clonePath): the results, and the content
\* of the file afterwards.
patchSingleFile(content, issues, readable) ==
  IF ~readable
    THEN [content |-> content,
          written |-> FALSE,
          results |-> [i \in 1..Len(issues) |->
                         PatchResult(issues[i], FALSE, "Cannot read file")]]
  ELSE
    LET lineEnding == IF includes(content, CRLF) THEN CRLF ELSE LF
        done == patchLoop(split(content, lineEnding), sortDescending(issues),
                          <<>>, FALSE)
    IN [content |-> IF done.modified THEN join(done.lines, lineEnding)
                    ELSE content,
        written |-> done.modified,
        results |-> done.results]

RECURSIVE scanFilesFrom(_, _, _)
\* The loop of scanForIssues over the files from index k: the issues of a
\* file are pushed one by one, and both loops end when MAX_ISSUES is reached.
scanFilesFrom(files, k, detectedIssues) ==
  IF k > Len(files) THEN detectedIssues
  ELSE
    LET issuesForFile == detectIssuesInFile(files[k])
        room == MAX_ISSUES - Len(detectedIssues)
        taken == SubSeq(issuesForFile, 1, Min(Max(room, 1), Len(issuesForFile)))
        pushed == detectedIssues \o
                  [i \in 1..Len(taken) |->
                     [filePath |-> k, bugType |-> taken[i].bugType,
                      lineNumber |-> taken[i].lineNumber]]
    IN IF Len(pushed) >= MAX_ISSUES THEN pushed
       ELSE scanFilesFrom(files, k + 1, pushed)

\* scanForIssues(cloneDir).detectedIssues for the files walkFiles returns.
scanForIssues(files) == scanFilesFrom(files, 1, <<>>)

\* scanForIssues scans the tree.
ScanTree ==
  /\ scan.stage = "walked"
  /\ scan' = [scan EXCEPT !.stage = "scanned",
                          !.detectedIssues = scanForIssues(scan.files)]
  /\ UNCHANGED <<pc, body, world, exe, file, probe, memVars, fsVars, dbVars, cb>>

\* analyzerAgent: scanForIssues reads the file and detects its issues.
ScanFile ==
  /\ file.stage = "read"
  /\ file' = [file EXCEPT !.stage = "scanned",
                          !.issues = detectIssuesInFile(file.content)]
  /\ UNCHANGED <<pc, body, world, exe, probe, scan, memVars, fsVars, dbVars, cb>>

\* remediationAgent: applyAllPatches hands the issues of the file to
\* patchSingleFile; reading the file again succeeds or fails.
PatchFile ==
  /\ file.stage = "scanned"
  /\ \E readable \in BOOLEAN :
       LET done == patchSingleFile(file.content, file.issues, readable) IN
       file' = [file EXCEPT !.stage = "patched",
                            !.scanned = file.content,
                            !.content = done.content,
                            !.results = done.results,
                            !.written = done.written,
                            !.readable = readable]
  /\ UNCHANGED <<pc, body, world, exe, probe, scan, memVars, fsVars, dbVars, cb>>

\* verifierAgent: scanForIssues scans the patched file.
RescanFile ==
  /\ file.stage = "patched"
  /\ file' = [file EXCEPT !.stage = "rescanned",
                          !.remaining = detectIssuesInFile(file.content)]
  /\ UNCHANGED <<pc, body, world, exe, probe, scan, memVars, fsVars, dbVars, cb>>

(* ------------------------------------------------------------------ *)
(* Process crash                                                        *)
(* ------------------------------------------------------------------ *)

HandlerDone == {"none", "responded201", "responded500", "unhandled", "crashed"}

\* The process dies: memory is lost, the datastore aborts the open transactions.
Crash ==
  /\ \E r \in Runs : pc[r] \notin HandlerDone \cup {"received"}
  /\ pc' = [r \in Runs |-> IF pc[r] \in HandlerDone THEN pc[r] ELSE "crashed"]
  /\ dbPatches' = [r \in Runs |-> dbPatches[r] \o rolledBack(tx[r]).patches]
  /\ dbTimeline' = [r \in Runs |-> dbTimeline[r] \o rolledBack(tx[r]).timeline]
  /\ tx' = [r \in Runs |-> NoTx]
  /\ lock' = [r \in Runs |-> Free]
  /\ loc' = [r \in Runs |-> NoLocals]
  /\ activeClonePaths' = [r \in Runs |-> 0]
  /\ cb' = [c \in Callbacks |->
       IF cb[c].pc \in {"transition", "commit"}
         THEN NoRequest("crashed") ELSE cb[c]]
  /\ st' = [r \in Runs |->
       IF pc[r] \in HandlerDone THEN st[r] ELSE InitialAgentState(0)]
  /\ err' = [r \in Runs |-> IF pc[r] \in HandlerDone THEN err[r] ELSE ""]
  /\ UNCHANGED <<envVars, tempRoots, created, cleanups, gitVars, dbRuns,
                 dbTransitions, dbTests>>

(* ------------------------------------------------------------------ *)
(* Specifications                                                       *)
(* ------------------------------------------------------------------ *)

RunStep(r) ==
  \/ Create(r)
  \/ plannerAgent(r)
  \/ analyzerAgent(r)
  \/ remediationAgent(r)
  \/ recordIterationPatch(r)
  \/ recordIterationTimeline(r)
  \/ recordIterationCommit(r)
  \/ recordIterationFail(r)
  \/ remediationFinish(r)
  \/ verifierAgent(r)
  \/ Route(r)
  \/ scoringAgent(r)
  \/ finalizeScoringBegin(r)
  \/ finalizeScoringCommit(r)
  \/ finalizeScoringFail(r)
  \/ graphCatch(r)
  \/ handlerSuccess(r)
  \/ failBegin(r)
  \/ failCommit(r)
  \/ failAbort(r)
  \/ failRespond(r)

CallbackStep(c) ==
  \/ callbackReceive(c)
  \/ callbackBegin(c)
  \/ callbackCommit(c)
  \/ callbackAbort(c)

\* One run, no callback requests.
Next == (\E r \in Runs : RunStep(r)) \/ Crash

Spec == Init /\ [][Next]_vars

\* Two concurrent runs.
NextConc == \E r \in Runs : RunStep(r)

SpecConc == InitConc /\ [][NextConc]_vars

\* One run in a process that stays up: every external call of the handler
\* returns or fails, and the event loop then runs the handler's next step.
NextLive == \E r \in Runs : RunStep(r)

SpecLive == Init /\ [][NextLive]_vars /\ WF_vars(NextLive)

\* One call of the sandboxed executor, on either path, with any outcome of
\* the command.
InitExec ==
  /\ InitRest
  /\ world = NarrowWorld
  /\ body = [r \in Runs |-> NoBody]
  /\ pc = [r \in Runs |-> "none"]
  /\ file = NoFile
  /\ probe = NoProbe
  /\ scan = NoScan
  /\ \E path \in {"container", "subprocess"}, t \in ExecTimeouts :
       \E outcome \in ExecFileOutcomes(t) :
         exe = [stage |-> "called", path |-> path, timeoutMs |-> t,
                outcome |-> outcome,
                result |-> [kind |-> "none", exitCode |-> 0, durationMs |-> 0,
                            timedOut |-> FALSE]]

NextExec == ExecutorReturns

SpecExec == InitExec /\ [][NextExec]_vars

\* One source file with any content: the analyzer scans it, the remediator
\* patches it, the verifier scans it again.
InitPatch ==
  /\ InitRest
  /\ world = NarrowWorld
  /\ body = [r \in Runs |-> NoBody]
  /\ pc = [r \in Runs |-> "none"]
  /\ exe = NoCall
  /\ probe = NoProbe
  /\ scan = NoScan
  /\ \E content \in Contents :
       file = [stage |-> "read", content |-> content, scanned |-> <<>>,
               issues |-> <<>>, results |-> <<>>, readable |-> TRUE,
               written |-> FALSE, remaining |-> <<>>]

NextPatch == ScanFile \/ PatchFile \/ RescanFile

SpecPatch == InitPatch /\ [][NextPatch]_vars

\* The patch engine alone: a file with any content and any list of issues,
\* on lines inside and outside the file.
EngineLexemes == {"x", "sp", "tab", "lf", "cr", "log", "any"}

EngineContents == UNION {[1..n -> EngineLexemes] : n \in 0..MaxEngineLen}

EngineIssues ==
  UNION {[1..n -> [bugType : BugTypes, lineNumber : 0..MaxEngineLen]] :
           n \in 0..MaxEngineIssues}

InitEngine ==
  /\ InitRest
  /\ world = NarrowWorld
  /\ body = [r \in Runs |-> NoBody]
  /\ pc = [r \in Runs |-> "none"]
  /\ exe = NoCall
  /\ probe = NoProbe
  /\ scan = NoScan
  /\ \E content \in EngineContents, issues \in EngineIssues :
       file = [stage |-> "scanned", content |-> content, scanned |-> content,
               issues |-> issues, results |-> <<>>, readable |-> TRUE,
               written |-> FALSE, remaining |-> <<>>]

NextEngine == PatchFile

SpecEngine == InitEngine /\ [][NextEngine]_vars

\* One process in which the test executions of two runs call the probe.
InitProbe ==
  /\ InitRest
  /\ world = NarrowWorld
  /\ body = [r \in Runs |-> NoBody]
  /\ pc = [r \in Runs |-> "none"]
  /\ exe = NoCall
  /\ file = NoFile
  /\ scan = NoScan
  /\ probe = [stage |-> "process", cached |-> NotProbed,
              pc |-> [r \in Runs |-> "idle"],
              answers |-> [r \in Runs |-> <<>>],
              executed |-> 0]

NextProbe == \E r \in Runs : probeEnter(r) \/ probeSettle(r)

SpecProbe == InitProbe /\ [][NextProbe]_vars

\* One scan of a file tree. The trees are the single files of every content,
\* and the trees of many files of one or two kinds, up to more files than
\* MAX_ISSUES allows issues.
Lines(lines) == join(lines, LF)

FileKinds ==
  { Lines(<< <<"x">> >>),
    Lines(<< <<"x", "sp">>, <<"x", "sp">>, <<"tab", "x">>, <<"tab", "x">> >>),
    Lines(<< <<"tab", "any", "log", "sp">>, <<"star">> >>),
    Lines(<< <<"x", "sp">>, <<"star">>, <<"any">> >>),
    Lines(<< <<"x", "sp">>, <<"star">>, <<"any">>, <<"tab", "x">>, <<"log">> >>),
    Lines(<< <<"log">>, <<"todo">>, <<"any">>, <<"any">>, <<"tab">>, <<"x", "sp">> >>) }

FileCounts == {0, 1, 59, 60, 61}

Trees ==
  {<<content>> : content \in Contents}
  \cup {Rep(n, a) \o Rep(m, b) : n \in FileCounts, m \in FileCounts,
                                 a \in FileKinds, b \in FileKinds}

InitScan ==
  /\ InitRest
  /\ world = NarrowWorld
  /\ body = [r \in Runs |-> NoBody]
  /\ pc = [r \in Runs |-> "none"]
  /\ exe = NoCall
  /\ file = NoFile
  /\ probe = NoProbe
  /\ \E files \in Trees :
       scan = [stage |-> "walked", files |-> files, detectedIssues |-> <<>>]

NextScan == ScanTree

SpecScan == InitScan /\ [][NextScan]_vars

\* One run and the sandbox callbacks.
NextCallback ==
  \/ \E r \in Runs : RunStep(r)
  \/ \E c \in Callbacks : CallbackStep(c)
  \/ Crash

SpecCallback == InitCallback /\ [][NextCallback]_vars


(* ------------------------------------------------------------------ *)
(* Properties                                                           *)
(* ------------------------------------------------------------------ *)

GraphNodes == {"planner", "analyzer", "remediator", "recordIteration",
               "remediatorFinish", "verifier", "routing", "scorer"}

\* C1: the only edges out of verifying are the conditional ones: to scoring
\* exactly when CI status is "passed" or currentIteration >= retryLimit, back
\* to remediating in every other case; scoring is entered from verifying only.
C1_RoutingAfterVerifying ==
  [][\A r \in Runs :
       /\ (pc[r] = "verifier" /\ pc'[r] \in GraphNodes \ {"verifier"})
            => pc'[r] = "routing"
       /\ (pc[r] = "routing" /\ pc'[r] \in GraphNodes \ {"routing"})
            => /\ pc'[r] \in {"scorer", "remediator"}
               /\ pc'[r] = "scorer" <=>
                    (\/ st[r].ciStatus = "passed"
                     \/ st[r].currentIteration >= st[r].retryLimit)
       /\ (pc'[r] = "scorer" /\ pc[r] # "scorer") => pc[r] = "routing"
    ]_vars

\* C1 witness: a run that looped back at least once and then advanced to
\* scoring because the retry limit was reached.
C1_Witness ==
  \E r \in Runs :
    /\ pc[r] = "scorer"
    /\ st[r].ciStatus = "failed"
    /\ st[r].retryLimit >= 2
    /\ st[r].currentIteration = st[r].retryLimit

VerificationRows(r) ==
  {i \in 1..Len(dbTests[r]) : dbTests[r][i].phase = "verification"}

Owned(r) == {w \in 1..Len(created) : created[w] = r}

Releases(w) ==
  {<<q, i>> \in Runs \X (1..Len(created) + 1) :
     i <= Len(cleanups[q]) /\ cleanups[q][i] = w}

\* Positions of a handler after runAgentGraph has returned or thrown.
GraphLeft == {"graphReturned", "responded201", "serverCatch", "failCommit",
              "failPersist", "responded500", "unhandled"}

\* C4: with two runs interleaved, a run only ever releases its own workspace,
\* never releases it twice, and once runAgentGraph has returned or thrown the
\* workspace it provisioned has been released exactly once and is gone.
C4_WorkspaceReleasedExactlyOnce ==
  \A r \in Runs :
    /\ \A i \in 1..Len(cleanups[r]) : cleanups[r][i] \in Owned(r)
    /\ \A w \in Owned(r) : Cardinality(Releases(w)) <= 1
    /\ pc[r] \in GraphLeft =>
         \A w \in Owned(r) : Cardinality(Releases(w)) = 1 /\ w \notin tempRoots

\* C4 witness: both runs provisioned a workspace; one released it in scoring,
\* the other in the catch of runAgentGraph.
C4_Witness ==
  \E r, q \in Runs :
    /\ r # q
    /\ pc[r] = "graphReturned" /\ Len(cleanups[r]) = 1
    /\ pc[q] = "serverCatch" /\ err[q] # "" /\ Len(cleanups[q]) = 1

FailedTransitions(r) ==
  {i \in 1..Len(dbTransitions[r]) : dbTransitions[r][i].to_status = "failed"}

\* C5: after a failure raised in the pipeline has passed the top-level
\* handlers, the run's workspace is released and the run row has status
\* "failed" with the captured message as its error, recorded once.
C5_FailureReleasesAndMarksFailed ==
  \A r \in Runs :
    (/\ pc[r] \in {"failPersist", "responded500", "unhandled"}
     /\ dbRuns[r].present) =>
      /\ \A w \in Owned(r) : w \notin tempRoots
      /\ activeClonePaths[r] = 0
      /\ dbRuns[r].status = "failed"
      /\ dbRuns[r].error = err[r]
      /\ Cardinality(FailedTransitions(r)) = 1

\* C6: the to_status of a run's last transition row is the status of its row.
C6_LastTransitionIsStatus ==
  \A r \in Runs :
    dbRuns[r].present =>
      /\ Len(dbTransitions[r]) >= 1
      /\ dbTransitions[r][Len(dbTransitions[r])].to_status = dbRuns[r].status

\* C6 witness: create, progress updates, a recorded iteration, a callback's
\* transitionStatus and finalizeScoring have all written to the run.
C6_Witness ==
  \E r \in Runs :
    /\ dbRuns[r].present
    /\ dbRuns[r].status = "completed"
    /\ dbRuns[r].current_iteration >= 1
    /\ Len(dbTimeline[r]) >= 1
    /\ Len(dbTransitions[r]) >= 3
    /\ \E i \in 1..Len(dbTransitions[r]) :
         dbTransitions[r][i].reason = "Sandbox callback"

\* C7: the audit trail of a run is a chain: the first row starts from no
\* status and every later row starts from the to_status of the row before it.
C7_AuditTrailIsChain ==
  \A r \in Runs :
    \A i \in 1..Len(dbTransitions[r]) :
      dbTransitions[r][i].from_status =
        IF i = 1 THEN "null" ELSE dbTransitions[r][i - 1].to_status

\* C7 witness: a callback's transitionStatus holds the row lock while the
\* scorer's finalizeScoring is about to read the status.
C7_Witness ==
  \E c \in Callbacks :
    /\ cb[c].pc = "commit"
    /\ pc[cb[c].runId] = "finalizeScoring"
    /\ lock[cb[c].runId] = CallbackSession(c)

Terminal == {"completed", "failed"}

\* C8: once the status of a run is terminal, no step changes the run row or
\* adds a transition row.
C8_TerminalRunNeverMutated ==
  [][\A r \in Runs :
       (dbRuns[r].present /\ dbRuns[r].status \in Terminal) =>
         /\ dbRuns'[r] = dbRuns[r]
         /\ dbTransitions'[r] = dbTransitions[r]
    ]_vars

\* The patch rows recordIteration is called with.
IterationRows(r, l) ==
  [i \in 1..Len(l.fixes) |->
     PatchRow(r, l.iteration, l.fixes[i], l.commitSha)]

\* C9: whatever fails or crashes, the persisted patches and timeline of a run
\* change only by gaining all patch rows of one recordIteration call together
\* with its timeline row.
C9_RecordIterationAtomic ==
  [][\A r \in Runs :
       (dbPatches'[r] # dbPatches[r] \/ dbTimeline'[r] # dbTimeline[r]) =>
         /\ loc[r].kind = "remediate"
         /\ dbPatches'[r] = dbPatches[r] \o IterationRows(r, loc[r])
         /\ dbTimeline'[r] = Append(dbTimeline[r], TimelineRow(r, loc[r].entry))
    ]_vars

\* C9 witness: recordIteration is in mid-transaction, patch rows written and
\* the timeline row not yet, where a failure or a crash can strike.
C9_Witness ==
  \E r \in Runs :
    /\ pc[r] = "recordIteration"
    /\ Len(tx[r].patches) >= 1
    /\ tx[r].timeline = <<>>
    /\ dbPatches[r] = <<>>

\* C10: a run that enters scoring with CI status "passed" has a most recent
\* test/build execution that passed with exit code 0.
C10_PassedMeansLastExitZero ==
  \A r \in Runs :
    (pc[r] = "scorer" /\ st[r].ciStatus = "passed") =>
      /\ Len(dbTests[r]) >= 1
      /\ dbTests[r][Len(dbTests[r])].exit_code = 0
      /\ st[r].testResults.passed

\* Rows of a run's table that belong to one iteration.
RowsOfIteration(rows, iteration) ==
  {i \in 1..Len(rows) : rows[i].iteration = iteration}

\* C11: a remediation entered with zero outstanding issues prepares no
\* patch row, no patch and no commit and one "passed" timeline entry; after it
\* the run has exactly that one entry for the iteration and CI status
\* "passed", the verifier passes it on unchanged, and the router then goes to
\* scoring.
C11_NoIssueRemediation ==
  /\ [](\A r \in Runs :
          /\ (pc[r] \in {"recordIteration", "remediatorFinish"}
                /\ st[r].issues = 0) =>
               /\ loc[r].fixes = <<>>
               /\ loc[r].applied = 0
               /\ ~loc[r].commitSha
               /\ loc[r].commitCount = st[r].commitCount
               /\ loc[r].entry.result = "passed"
               /\ loc[r].entry.iteration = st[r].currentIteration + 1
               /\ tx[r].patches = <<>>
          /\ (pc[r] = "verifier" /\ st[r].issues = 0) =>
               /\ st[r].ciStatus = "passed"
               /\ Len(st[r].timeline) = st[r].currentIteration
               /\ st[r].timeline[Len(st[r].timeline)].result = "passed"
               /\ RowsOfIteration(dbPatches[r], st[r].currentIteration) = {}
               /\ Cardinality(RowsOfIteration(dbTimeline[r],
                                              st[r].currentIteration)) = 1)
  /\ [][\A r \in Runs :
          /\ (pc[r] = "verifier" /\ st[r].issues = 0
                /\ pc'[r] \notin {"verifier", "crashed"}) =>
               /\ pc'[r] = "routing"
               /\ st'[r] = st[r]
               /\ dbTests'[r] = dbTests[r]
          /\ (pc[r] = "routing" /\ st[r].ciStatus = "passed"
                /\ pc'[r] \notin {"routing", "crashed"}) =>
               pc'[r] = "scorer"
     ]_vars

\* C11 witness: with a retry limit of at least 2, a run whose first
\* remediation found no issue is at scoring after that single cycle.
C11_Witness ==
  \E r \in Runs :
    /\ pc[r] = "scorer"
    /\ st[r].issues = 0
    /\ st[r].retryLimit >= 2
    /\ st[r].currentIteration = 1
    /\ Len(dbTimeline[r]) = 1
    /\ dbPatches[r] = <<>>

AppliedPatchRows(r) ==
  {i \in 1..Len(dbPatches[r]) : dbPatches[r][i].status = "passed"}

\* C12 as stated: the fixes table returned by getFullResult has as many rows
\* as the run has applied (status "passed") patch rows.
C12_FixesTableCountsApplied ==
  \A r \in Runs :
    getFullResult(r).found =>
      Len(getFullResult(r).fixesTable) = Cardinality(AppliedPatchRows(r))

\* C12 amended: the fixes table returned by getFullResult has one row for
\* every patch row of the run, applied or not, in insertion order and with
\* the patch row's status; its rows with status "passed" are as many as the
\* applied patch rows.
C12_FixesTableMirrorsPatches ==
  \A r \in Runs :
    getFullResult(r).found =>
      LET table == getFullResult(r).fixesTable IN
      /\ Len(table) = Len(dbPatches[r])
      /\ \A i \in 1..Len(table) : table[i].status = dbPatches[r][i].status
      /\ Cardinality({i \in 1..Len(table) : table[i].status = "passed"})
           = Cardinality(AppliedPatchRows(r))

\* C12 witness: a run with an applied and an unapplied patch row recorded.
C12_Witness ==
  \E r \in Runs :
    /\ getFullResult(r).found
    /\ \E i, j \in 1..Len(dbPatches[r]) :
         /\ dbPatches[r][i].status = "passed"
         /\ dbPatches[r][j].status = "failed"

\* C13: the timeline of a run, in memory and persisted, is numbered 1, 2,
\* ..., n in insertion order, with one row per iteration begun; the timeline
\* of getFullResult is ascending by iteration; a persisted entry never
\* changes or disappears.
C13_TimelineNumbered ==
  /\ [](\A r \in Runs :
          /\ \A i \in 1..Len(st[r].timeline) : st[r].timeline[i].iteration = i
          /\ \A i \in 1..Len(dbTimeline[r]) : dbTimeline[r][i].iteration = i
          /\ getFullResult(r).found =>
               /\ Len(dbTimeline[r]) - dbRuns[r].current_iteration \in {0, 1}
               /\ LET t == getFullResult(r).timeline IN
                  \A i, j \in 1..Len(t) :
                    i < j => t[i].iteration < t[j].iteration)
  /\ [][\A r \in Runs :
          \A i \in 1..Len(dbTimeline[r]) :
            /\ i <= Len(dbTimeline'[r])
            /\ dbTimeline'[r][i] = dbTimeline[r][i]
     ]_vars

\* C13 witness: three iterations recorded, with both results among them.
C13_Witness ==
  \E r \in Runs :
    /\ Len(dbTimeline[r]) >= 3
    /\ \E i, j \in 1..Len(dbTimeline[r]) :
         /\ dbTimeline[r][i].result = "passed"
         /\ dbTimeline[r][j].result = "failed"

\* Positions of a run between the end of analysis and the end of scoring.
AfterAnalysis == {"remediator", "recordIteration", "remediatorFinish",
                  "verifier", "routing", "scorer", "finalizeScoring",
                  "finalizeCommit", "graphReturned", "responded201"}

\* The base score the three cases of the specification give for a result.
ExpectedBaseScore(res) ==
  IF res.executionMethod = "skipped" THEN 70
  ELSE IF res.passed THEN 100
  ELSE 40

\* C14: the base score computed at scoring, and the one persisted and
\* returned after it, is 70 when the latest execution was skipped, 100 when
\* it ran and passed and 40 when it ran and failed.
C14_BaseScoreCases ==
  \A r \in Runs :
    LET latest == latestTestResult(dbTests[r]) IN
    /\ pc[r] \in {"finalizeScoring", "finalizeCommit"} =>
         /\ st[r].testResults.executionMethod = latest.executionMethod
         /\ st[r].testResults.passed = latest.passed
         /\ loc[r].baseScore = ExpectedBaseScore(latest)
    /\ pc[r] \in {"graphReturned", "responded201"} =>
         /\ st[r].baseScore = ExpectedBaseScore(latest)
         /\ dbRuns[r].base_score = ExpectedBaseScore(latest)
         /\ getFullResult(r).baseScore = ExpectedBaseScore(latest)

\* C14 witness: a run on a repository without manifest has been scored 70.
C14_Witness ==
  \E r \in Runs :
    /\ pc[r] = "graphReturned"
    /\ dbRuns[r].project_type = "unknown"
    /\ latestTestResult(dbTests[r]).executionMethod = "skipped"
    /\ dbRuns[r].base_score = 70

\* C15: when the execution was skipped, the failure count after analysis and
\* after every verification is the number of issues the scanner detected.
C15_SkippedFailuresAreScanOnly ==
  \A r \in Runs :
    (/\ pc[r] \in AfterAnalysis
     /\ st[r].testResults.executionMethod = "skipped") =>
      /\ st[r].failuresCount = st[r].issues
      /\ dbRuns[r].failures_count = st[r].issues

\* C16: when the execution was skipped, CI status is never "failed" and the
\* run never comes back to remediation after its first cycle.
C16_SkippedIsNotFailed ==
  \A r \in Runs :
    (/\ pc[r] \in AfterAnalysis
     /\ st[r].testResults.executionMethod = "skipped") =>
      /\ st[r].ciStatus # "failed"
      /\ pc[r] = "remediator" => st[r].currentIteration = 0


(* ------------------------------------------------------------------ *)
(* C17: the sandboxed executor                                          *)
(* ------------------------------------------------------------------ *)

\* The timer of the call fired: the command ran for the timeout or longer.
TimerFired == exe.outcome.elapsed >= exe.timeoutMs

\* The command ended with a non-zero exit code.
ExitedNonZero == exe.outcome.code.kind = "number"

\* C17: on both paths the executor never raises; a non-zero exit of the
\* command gives a result with a non-zero exitCode, and a timeout gives a
\* result with a non-zero exitCode and timedOut set.
C17_ExecutorNeverRaises ==
  exe.stage = "returned" =>
    /\ exe.result.kind = "value"
    /\ ExitedNonZero => exe.result.exitCode # 0
    /\ TimerFired => (exe.result.exitCode # 0 /\ exe.result.timedOut)

\* The two parts of C17 that the code keeps: a value is always returned,
\* and a non-zero exit is reported as a non-zero exitCode.
C17_ReturnsAndReportsExit ==
  exe.stage = "returned" =>
    /\ exe.result.kind = "value"
    /\ ExitedNonZero => exe.result.exitCode # 0

C17_Witness ==
  /\ exe.stage = "returned"
  /\ TimerFired
  /\ exe.outcome.settled = "resolved"
  /\ exe.result.exitCode = 0
  /\ ~exe.result.timedOut

(* ------------------------------------------------------------------ *)
(* C18: scan, patch, scan again                                         *)
(* ------------------------------------------------------------------ *)

Deterministic == {"LINTING", "INDENTATION"}

\* C18: after a file was scanned and patched once, the second scan reports
\* no trailing-whitespace (LINTING) and no tab-indentation (INDENTATION)
\* issue, whatever the content of the file was.
C18_SecondScanClean ==
  (file.stage = "rescanned" /\ file.readable) =>
    \A i \in 1..Len(file.remaining) :
      file.remaining[i].bugType \notin Deterministic

\* What the scanner guarantees instead: every issue of the first scan was
\* applied, and the line it named no longer ends in white space (LINTING),
\* no longer starts with a tab (INDENTATION).
C18_ReportedLinesFixed ==
  (file.stage = "rescanned" /\ file.readable /\ ~includes(file.scanned, <<"cr">>)) =>
    \A i \in 1..Len(file.results) :
      LET res == file.results[i]
          before == splitLines(file.scanned)[res.lineNumber]
          fix == computeLineFix(before, res.bugType) IN
      res.bugType \in Deterministic =>
        /\ res.applied
        /\ fix.kind = "replace"
        /\ ~hasTrailingWhitespace(fix.replacement) \/ res.bugType # "LINTING"
        /\ ~hasTabIndent(fix.replacement) \/ res.bugType # "INDENTATION"

\* Two lines end in white space: the first scan reports the first of them
\* only, and the second scan reports the other.
C18_Witness ==
  /\ file.stage = "rescanned"
  /\ file.readable
  /\ file.scanned = <<"sp", "lf", "sp">>
  /\ file.issues = <<[bugType |-> "LINTING", lineNumber |-> 1]>>
  /\ file.results[1].applied
  /\ file.remaining = <<[bugType |-> "LINTING", lineNumber |-> 2]>>

(* ------------------------------------------------------------------ *)
(* C19: each issue is fixed by its own transformation, or is unapplied  *)
(* ------------------------------------------------------------------ *)

\* The pattern of category X, as the scanner tests it.
Matches(bugType, line) ==
  CASE bugType = "LINTING" -> hasTrailingWhitespace(line)
    [] bugType = "IMPORT" -> isWildcardImport(line)
    [] bugType = "TYPE_ERROR" -> hasAnyType(line)
    [] bugType = "INDENTATION" -> hasTabIndent(line)
    [] bugType = "LOGIC" -> hasTodo(line) \/ hasConsoleLog(line)

\* The lines that may stand in place of a line after the transformation of
\* category X: trailing white space stripped, tabs to two spaces, the
\* unsafe type replaced, the import line deleted, the debug/TODO line
\* deleted or its comment stripped.
TransformedLine(bugType, line) ==
  CASE bugType = "LINTING" -> {<<trimEnd(line)>>}
    [] bugType = "INDENTATION" -> {<<replaceTabs(line)>>}
    [] bugType = "TYPE_ERROR" -> {<<replaceAny(line)>>}
    [] bugType = "IMPORT" -> {<<>>}
    [] bugType = "LOGIC" ->
         {<<>>} \cup (IF stripTodoComment(line) # line
                        THEN {<<stripTodoComment(line)>>} ELSE {})

RECURSIVE ExpectedLines(_, _, _)
\* The line sequences in which exactly the lines of the applied results
\* are transformed, each by the transformation of its own category.
ExpectedLines(lines, k, results) ==
  IF k > Len(lines) THEN {<<>>}
  ELSE
    LET applied == {i \in 1..Len(results) :
                      results[i].applied /\ results[i].lineNumber = k}
        heads == IF applied = {} THEN {<<lines[k]>>}
                 ELSE UNION {TransformedLine(results[i].bugType, lines[k]) :
                               i \in applied}
    IN {h \o t : h \in heads, t \in ExpectedLines(lines, k + 1, results)}

\* The issues of the scan were handed to the patch engine, which read the
\* file.
Patched == file.stage = "patched" /\ file.readable

\* The outcome C19 requires for the scanned file and the results.
EachIssueAppliedOrUnmatched ==
  LET lines == splitLines(file.scanned) IN
  /\ Len(file.results) = Len(file.issues)
  /\ \A i \in 1..Len(file.results) :
       LET res == file.results[i] IN
       /\ res.lineNumber \in 1..Len(lines)
       /\ res.applied => Matches(res.bugType, lines[res.lineNumber])
       /\ ~res.applied =>
            /\ ~Matches(res.bugType, lines[res.lineNumber])
            /\ res.description = "Pattern no longer matches"
  /\ IF \A i \in 1..Len(file.results) : ~file.results[i].applied
       THEN file.content = file.scanned
       ELSE \E expected \in ExpectedLines(lines, 1, file.results) :
              \E ending \in {LF, CRLF} : file.content = join(expected, ending)

\* C19: every issue handed to the patch engine is either applied, by the
\* transformation of its own category on the line it names, or unapplied
\* with a reason because that line no longer matches the pattern of its
\* category, the file being unchanged for it; no other transformation is
\* applied.
C19_EachIssueAppliedOrUnmatched == Patched => EachIssueAppliedOrUnmatched

\* The line breaks of a content are all LF, with no carriage return in it.
OnlyLF(content) == ~includes(content, <<"cr">>)

\* The line breaks of a content are all CRLF: no carriage return and no
\* line feed stands alone.
OnlyCRLF(content) ==
  \A i \in 1..Len(content) :
    /\ content[i] = "cr" => (i < Len(content) /\ content[i + 1] = "lf")
    /\ content[i] = "lf" => (i > 1 /\ content[i - 1] = "cr")

\* The same statement for the files with one kind of line break.
C19_HoldsForUniformFiles ==
  (Patched /\ (OnlyLF(file.scanned) \/ OnlyCRLF(file.scanned))) =>
    EachIssueAppliedOrUnmatched

\* A file with both kinds of line break: the scanner reports the unsafe
\* type on line 2, the patch engine splits on CRLF only and finds line 2
\* empty.
C19_Witness ==
  /\ Patched
  /\ file.scanned = <<"lf", "any", "cr", "lf">>
  /\ file.issues = <<[bugType |-> "TYPE_ERROR", lineNumber |-> 2]>>
  /\ ~file.results[1].applied
  /\ file.content = file.scanned

(* ------------------------------------------------------------------ *)
(* C20: every submitted run terminates                                  *)
(* ------------------------------------------------------------------ *)

\* The pipeline of run r is at scoring or in the top-level failure handler.
AtScoringOrFailure(r) == pc[r] \in {"scorer", "serverCatch"}

\* Run r was submitted: its row is created and the graph is about to start.
Submitted(r) == pc[r] = "planner"

\* The row of run r has a terminal status.
HasTerminalStatus(r) == dbRuns[r].present /\ dbRuns[r].status \in Terminal

\* C20: when every external call returns or fails, a submitted run reaches
\* scoring or the top-level failure handler, and its row eventually has a
\* terminal status, "completed" or "failed".
C20_RunReachesTerminalStatus ==
  \A r \in Runs :
    /\ Submitted(r) ~> AtScoringOrFailure(r)
    /\ Submitted(r) ~> HasTerminalStatus(r)

\* The part of C20 about the pipeline: the remediate/verify loop ends, the
\* run reaches scoring or the failure handler, and the handler ends.
C20_PipelineEnds ==
  \A r \in Runs :
    /\ Submitted(r) ~> AtScoringOrFailure(r)
    /\ Submitted(r) ~> (pc[r] \in HandlerDone)

\* The failure handler's own write fails: the handler has ended and the run
\* is still "running".
C20_Witness ==
  \E r \in Runs :
    /\ pc[r] = "unhandled"
    /\ dbRuns[r].present
    /\ dbRuns[r].status = "running"

(* ------------------------------------------------------------------ *)
(* C21: issues of one file are processed bottom-up                      *)
(* ------------------------------------------------------------------ *)

\* The lines of the file as the patch engine read it.
LinesAsRead == split(file.scanned,
                     IF includes(file.scanned, CRLF) THEN CRLF ELSE LF)

LineEndingAsRead == IF includes(file.scanned, CRLF) THEN CRLF ELSE LF

DistinctLines(issues) ==
  \A i, j \in 1..Len(issues) :
    i # j => issues[i].lineNumber # issues[j].lineNumber

InRange(n) == n \in 1..Len(LinesAsRead)

RECURSIVE FixedInPlace(_, _, _)
\* Each line as read, with the fix of the issue that names it, if any.
FixedInPlace(lines, k, issues) ==
  IF k > Len(lines) THEN <<>>
  ELSE
    LET named == {i \in 1..Len(issues) : issues[i].lineNumber = k}
        fix == IF named = {} THEN NoFix
               ELSE computeLineFix(lines[k],
                                   issues[CHOOSE i \in named : TRUE].bugType)
        head == IF fix.kind = "none" THEN <<lines[k]>>
                ELSE IF fix.kind = "delete" THEN <<>>
                ELSE <<fix.replacement>>
    IN head \o FixedInPlace(lines, k + 1, issues)

\* C21: for issues on pairwise distinct lines, each issue is checked
\* against, and applied to, the line that stood at its line number in the
\* file as read, also when issues on higher lines delete lines in the same
\* pass.
C21_AppliedToLinesAsRead ==
  (Patched /\ DistinctLines(file.issues)) =>
    /\ Len(file.results) = Len(file.issues)
    /\ \A i \in 1..Len(file.results) :
         LET res == file.results[i] IN
         InRange(res.lineNumber) =>
           (res.applied <=>
              computeLineFix(LinesAsRead[res.lineNumber], res.bugType) # NoFix)
    /\ file.content = IF file.written
                        THEN join(FixedInPlace(LinesAsRead, 1, file.issues),
                                  LineEndingAsRead)
                        ELSE file.scanned

\* The issue on line 2 deletes its line, and the issue on line 1, handed in
\* first, is applied to line 1.
C21_Witness ==
  /\ Patched
  /\ file.scanned = <<"sp", "lf", "log">>
  /\ file.issues = <<[bugType |-> "LINTING", lineNumber |-> 1],
                     [bugType |-> "LOGIC", lineNumber |-> 2]>>
  /\ \A i \in 1..2 : file.results[i].applied
  /\ file.content = <<>>

(* ------------------------------------------------------------------ *)
(* C22: issues out of range, and when the file is written               *)
(* ------------------------------------------------------------------ *)

SomeApplied == \E i \in 1..Len(file.results) : file.results[i].applied

\* C22: an issue whose line number is below 1 or above the number of lines
\* is reported as unapplied, with one result per issue and no exception;
\* the file is written only if some issue was applied, and when every
\* issue is unapplied the content is unchanged.
C22_OutOfRangeUnapplied ==
  file.stage = "patched" =>
    /\ Len(file.results) = Len(file.issues)
    /\ \A i \in 1..Len(file.results) :
         ~InRange(file.results[i].lineNumber) =>
           /\ ~file.results[i].applied
           /\ file.readable => file.results[i].description = "out of range"
    /\ file.written => SomeApplied
    /\ ~SomeApplied => file.content = file.scanned

\* A file of two lines and an issue on line 3; another on line 0.
C22_Witness ==
  /\ Patched
  /\ file.scanned = <<"sp", "lf", "sp">>
  /\ file.issues = <<[bugType |-> "LINTING", lineNumber |-> 3],
                     [bugType |-> "LINTING", lineNumber |-> 0]>>
  /\ \A i \in 1..2 : ~file.results[i].applied
  /\ ~file.written
  /\ file.content = file.scanned

(* ------------------------------------------------------------------ *)
(* C23: a push failure at scoring is not fatal                          *)
(* ------------------------------------------------------------------ *)

\* Run r is past its scoring node: finalizeScoring committed.
Scored(r) == pc[r] \in {"graphReturned", "responded201"}

\* C23: the push is attempted at most once per run, only in scoring and
\* while the workspace is on disk; whatever the push did (no credential,
\* rejected, accepted), scoring goes on: the workspace is released, the
\* score is computed and handed to finalizeScoring, and once that has
\* committed the run has status "completed" with the score persisted.
C23_PushFailureNotFatal ==
  /\ [](\A r \in Runs :
          /\ Len(pushes[r]) <= 1
          /\ \A i \in 1..Len(pushes[r]) : pushes[r][i].workspace
          /\ Scored(r) =>
               /\ dbRuns[r].status = "completed"
               /\ dbRuns[r].base_score = baseScore(st[r].testResults)
               /\ st[r].clonePath \notin tempRoots
               /\ activeClonePaths[r] = 0)
  /\ [][\A r \in Runs :
          /\ pushes'[r] # pushes[r] => pc[r] = "scorer"
          /\ (pc[r] = "scorer" /\ pc'[r] \notin {"scorer", "crashed"}) =>
               /\ pc'[r] = "finalizeScoring"
               /\ st[r].clonePath \notin tempRoots'
               /\ loc'[r].baseScore = baseScore(st[r].testResults)]_vars

\* The push of a run with a commit was rejected, and the run completed.
C23_Witness ==
  \E r \in Runs :
    /\ pc[r] = "responded201"
    /\ st[r].commitCount > 0
    /\ pushes[r] = <<[ok |-> FALSE, workspace |-> TRUE]>>
    /\ dbRuns[r].status = "completed"

(* ------------------------------------------------------------------ *)
(* C24: the docker probe runs once per process                          *)
(* ------------------------------------------------------------------ *)

\* C24: `docker info` is executed at most once in the life of the process,
\* also when the first executor calls of two runs overlap, and every
\* execution gets the same availability answer.
C24_ProbedOnce ==
  probe.stage = "process" =>
    /\ probe.executed <= 1
    /\ \A r, q \in Runs :
         \A i \in 1..Len(probe.answers[r]), j \in 1..Len(probe.answers[q]) :
           probe.answers[r][i] = probe.answers[q][j]

\* What the cache does guarantee: a call that starts after a probe has
\* settled runs no `docker info`, so there are never more executions than
\* callers, and a call that finds the cache filled returns the cached value.
C24_NoProbeOnceCached ==
  /\ [](probe.stage = "process" => probe.executed <= Cardinality(Runs))
  /\ [][(probe.stage = "process" /\ isCached(probe.cached)) =>
          /\ probe'.executed = probe.executed
          /\ \A r \in Runs :
               (probe.pc[r] = "idle" /\ probe'.answers[r] # probe.answers[r]) =>
                 probe'.answers[r] = Append(probe.answers[r], probe.cached)]_vars

\* The first calls of two runs overlapped: two probes ran, with different
\* outcomes.
C24_Witness ==
  /\ probe.stage = "process"
  /\ probe.executed = 2
  /\ probe.answers["r1"] = <<"true">>
  /\ probe.answers["r2"] = <<"false">>

(* ------------------------------------------------------------------ *)
(* C25: the scanner's output is bounded                                 *)
(* ------------------------------------------------------------------ *)

\* The positions of the detected issues that belong to file k.
IssuesOfFile(k) ==
  {i \in 1..Len(scan.detectedIssues) : scan.detectedIssues[i].filePath = k}

\* C25: a scan reports at most one issue per category per file, at most 3
\* issues per file, at most one issue per line, and at most 180 issues in
\* total.
C25_ScanBounded ==
  scan.stage = "scanned" =>
    /\ Len(scan.detectedIssues) <= 180
    /\ \A k \in 1..Len(scan.files) :
         /\ Cardinality(IssuesOfFile(k)) <= 3
         /\ \A i, j \in IssuesOfFile(k) :
              i # j =>
                /\ scan.detectedIssues[i].bugType # scan.detectedIssues[j].bugType
                /\ scan.detectedIssues[i].lineNumber
                     # scan.detectedIssues[j].lineNumber

\* A tree of 61 files with five offending lines each: three issues per
\* file, and the scan stops at 180.
C25_Witness ==
  /\ scan.stage = "scanned"
  /\ Len(scan.files) = 61
  /\ \A k \in 1..61 : Len(splitLines(scan.files[k])) = 5
  /\ Len(scan.detectedIssues) = 180
  /\ Cardinality(IssuesOfFile(60)) = 3
  /\ IssuesOfFile(61) = {}

(* ------------------------------------------------------------------ *)
(* C26: a datastore failure is answered                                 *)
(* ------------------------------------------------------------------ *)

\* The handler of run r has ended, in a process that is still up.
HandlerEnded(r) == pc[r] \in {"responded201", "responded500", "unhandled"}

\* C26: when a datastore write fails during a run submission, the initial
\* create and the failure handler's own transition included, the handler
\* ends with an error response; it never ends without a response.
C26_DatastoreFailureAnswered ==
  /\ [](\A r \in Runs :
          (HandlerEnded(r) /\ err[r] = "db") => pc[r] = "responded500")
  /\ [][\A r \in Runs :
          pc[r] \in {"received", "serverCatch", "failCommit"} =>
            pc'[r] # "unhandled"]_vars

\* RunRepository.create failed: no row, no response.
C26_Witness ==
  \E r \in Runs :
    /\ pc[r] = "unhandled"
    /\ err[r] = "db"
    /\ ~dbRuns[r].present

(* ------------------------------------------------------------------ *)
(* C27: the returned result and the stored view agree                   *)
(* ------------------------------------------------------------------ *)

\* runAgentGraph has returned the final state of run r to the handler.
Completed(r) == pc[r] \in {"graphReturned", "responded201"}

\* The status column of the fixes table of a result.
StatusesOf(rows) == [i \in 1..Len(rows) |-> rows[i].status]

\* C27: for a run that completes successfully, the result returned by the
\* submission (the final in-memory state) and the view of getFullResult
\* agree on CI status, failures count, fixes count, commit count, the
\* scoring fields, the fixes table rows and the timeline's
\* (iteration, result, retryCount, retryLimit) sequence.
C27_ReturnedAgreesWithStored ==
  \A r \in Runs :
    Completed(r) =>
      LET view == getFullResult(r)
          s == st[r] IN
      /\ view.found
      /\ view.ciStatus = s.ciStatus
      /\ view.failuresCount = s.failuresCount
      /\ view.fixesCount = s.fixesCount
      /\ view.commitCount = s.commitCount
      /\ view.baseScore = s.baseScore
      /\ view.efficiencyPenalty = s.efficiencyPenalty
      /\ StatusesOf(view.fixesTable) = s.fixesTable
      /\ view.timeline = s.timeline

\* A completed run with two iterations, patches of both outcomes and a commit.
C27_Witness ==
  \E r \in Runs :
    /\ Completed(r)
    /\ Len(st[r].timeline) >= 2
    /\ st[r].commitCount >= 1
    /\ \E i \in 1..Len(st[r].fixesTable) : st[r].fixesTable[i] = "failed"
    /\ \E i \in 1..Len(st[r].fixesTable) : st[r].fixesTable[i] = "passed"

(* ------------------------------------------------------------------ *)
(* C28: the fixes counter counts the applied patches                    *)
(* ------------------------------------------------------------------ *)

IsPassed(status) == status = "passed"

\* The number of rows with status "passed" in a sequence of statuses.
AppliedSoFar(statuses) == Len(SelectSeq(statuses, IsPassed))

\* The graph of run r is between two nodes, or has returned.
BetweenNodes(r) ==
  pc[r] \in {"verifier", "routing", "remediator", "scorer", "finalizeScoring",
             "finalizeCommit", "graphReturned", "responded201"}

\* C28: after every remediation iteration the fixes counter, in memory and
\* persisted as fixes_count, equals the number of patches applied so far in
\* the run (the fixes-table rows with status "passed" of all iterations),
\* also when earlier iterations recorded unapplied patches.
C28_FixesCountIsAppliedTotal ==
  \A r \in Runs :
    BetweenNodes(r) =>
      /\ st[r].fixesCount = AppliedSoFar(st[r].fixesTable)
      /\ dbRuns[r].present =>
           dbRuns[r].fixes_count = AppliedSoFar(StatusesOf(dbPatches[r]))

\* A second iteration has applied a patch after a first one that could not.
C28_Witness ==
  \E r \in Runs :
    /\ pc[r] = "verifier"
    /\ st[r].fixesTable = <<"failed", "passed">>
    /\ st[r].fixesCount = 2
    /\ dbRuns[r].present /\ dbRuns[r].fixes_count = 2

(* ------------------------------------------------------------------ *)
(* C29: commits, iterations and the retry limit                         *)
(* ------------------------------------------------------------------ *)

\* Values of AGENT_RETRY_LIMIT the process can be started with: not set,
\* "" or "0" (both converted to 0), "3", "21".
EnvRetryLimits == {EnvUnset, EnvSet(0), EnvSet(3), EnvSet(21)}

\* retryLimit values of the request of the environment specification.
RetryInputsEnv ==
  {[finite |-> FALSE, n |-> 0]} \cup {[finite |-> TRUE, n |-> k] : k \in {0, 2}}

\* Repositories whose test suite passes whenever it is executed.
PassingWorld(env) ==
  [types |-> {"node"}, failed |-> {}, issues |-> {0, 1},
   AGENT_RETRY_LIMIT |-> env]

\* A process started with any of the environments; one request is
\* submitted.  Under a default above the range the repository is one whose
\* tests pass.
InitEnv ==
  /\ InitCommon
  /\ body \in [Runs -> RetryInputsEnv]
  /\ body["r2"] = NoBody
  /\ \E env \in EnvRetryLimits :
       world = IF env.set /\ env.n > MaxRetryLimit
                 THEN PassingWorld(env)
                 ELSE [NarrowWorld EXCEPT !.AGENT_RETRY_LIMIT = env]
  /\ pc = [r \in Runs |-> IF r = "r1" THEN "received" ELSE "none"]

SpecEnv == InitEnv /\ [][Next]_vars

\* The graph of run r is running or has returned its final state.
InGraph(r) ==
  pc[r] \in {"planner", "analyzer", "remediator", "recordIteration",
             "remediatorFinish", "verifier", "routing", "scorer",
             "finalizeScoring", "finalizeCommit", "graphReturned",
             "responded201"}

\* C29: in every state of a submitted run, 0 <= commitCount <=
\* currentIteration <= retryLimit and 1 <= retryLimit <= 20, in memory and
\* persisted; hence the efficiency penalty computed at scoring is 0.
C29_CommitsWithinIterationsWithinLimit ==
  \A r \in Runs :
    /\ InGraph(r) =>
         /\ 0 <= st[r].commitCount
         /\ st[r].commitCount <= st[r].currentIteration
         /\ st[r].currentIteration <= st[r].retryLimit
         /\ MinRetryLimit <= st[r].retryLimit
         /\ st[r].retryLimit <= MaxRetryLimit
         /\ st[r].efficiencyPenalty = 0
         /\ loc[r].kind = "remediate" => loc[r].commitCount <= loc[r].iteration
         /\ loc[r].kind = "scoring" => loc[r].efficiencyPenalty = 0
    /\ dbRuns[r].present =>
         /\ 0 <= dbRuns[r].commit_count
         /\ dbRuns[r].commit_count <= dbRuns[r].current_iteration
         /\ dbRuns[r].current_iteration <= dbRuns[r].retry_limit
         /\ MinRetryLimit <= dbRuns[r].retry_limit
         /\ dbRuns[r].retry_limit <= MaxRetryLimit
         /\ dbRuns[r].efficiency_penalty = 0

\* A request without a usable retryLimit has been given the default of an
\* environment that sets it outside 1..20.
C29_Witness ==
  \E r \in Runs :
    /\ InGraph(r)
    /\ world.AGENT_RETRY_LIMIT.set
    /\ st[r].retryLimit = world.AGENT_RETRY_LIMIT.n
    /\ st[r].retryLimit \notin MinRetryLimit..MaxRetryLimit

(* ------------------------------------------------------------------ *)
(* C30: no use of a released workspace                                  *)
(* ------------------------------------------------------------------ *)

\* The workspace of run r has been made and is no longer on disk.
Released(r) == st[r].clonePath # 0 /\ st[r].clonePath \notin tempRoots

\* The nodes that work in the workspace.
WorkspaceNodes ==
  {"analyzer", "remediator", "recordIteration", "remediatorFinish", "verifier",
   "routing", "scorer"}

\* This step of run r runs applyAllPatches / stageAndCommit.
PatchStep(r) ==
  /\ pc[r] = "remediator" /\ pc'[r] \notin {"remediator", "crashed"}
  /\ st[r].issues > 0

\* This step of run r runs executeTests and scanForIssues again.
VerifyStep(r) ==
  /\ pc[r] = "verifier" /\ pc'[r] \notin {"verifier", "crashed"}
  /\ st[r].ciStatus # "passed"

\* This step of run r calls pushBranch.
PushStep(r) == Len(pushes'[r]) > Len(pushes[r])

\* This step of run r clones, detects the project type, tests and scans.
AnalyzeStep(r) ==
  pc[r] = "analyzer" /\ Len(created') > Len(created)

\* C30: no operation that needs the workspace (detection, execution, scan,
\* patch, commit, push) is performed on a run's workspace after it has been
\* released; after the release in scoring only the datastore write of the
\* final score follows.
C30_NoUseAfterRelease ==
  /\ [](\A r \in Runs : Released(r) => pc[r] \notin WorkspaceNodes)
  /\ [][\A r \in Runs :
          /\ AnalyzeStep(r) => Len(created') \in tempRoots'
          /\ PatchStep(r) => st[r].clonePath \in tempRoots
          /\ VerifyStep(r) => st[r].clonePath \in tempRoots
          /\ PushStep(r) => pushes'[r][Len(pushes'[r])].workspace
          /\ pc[r] \in {"finalizeScoring", "finalizeCommit"} =>
               pc'[r] \in {"finalizeScoring", "finalizeCommit", "graphReturned",
                           "graphCatch", "crashed"}]_vars

\* One run has pushed from its workspace, released it and answered, while
\* the other run is still verifying in its own workspace.
C30_Witness ==
  \E r, q \in Runs :
    /\ r # q
    /\ pc[r] = "responded201"
    /\ Released(r)
    /\ pushes[r] # <<>>
    /\ pc[q] = "verifier"
    /\ st[q].ciStatus # "passed"
    /\ st[q].clonePath \in tempRoots
=============================================================================
